---- MODULE Spec2Model ----
(***************************************************************************)
(* DreamlandLogger: a supervisor of a line-oriented child process (a game  *)
(* server).  The module models, component by component,                    *)
(*   - dl::Buffer                 (src/io/buffer.cpp, include/io/buffer.h) *)
(*   - dl::CommandRequestManager  (src/command_request.cpp)                *)
(*   - dl::PlayerList             (src/player_list.cpp)                    *)
(* together with the parts of dl::Program and dl::ServerManager that the   *)
(* components write to (the child's stdin, the running flags).             *)
(*                                                                         *)
(* Strings are sequences of one-character strings; positions are 0-based   *)
(* as in std::string, NPOS stands for std::string::npos.                   *)
(***************************************************************************)
EXTENDS Integers, Sequences, FiniteSets, TLC

(***************************************************************************)
(* std::string helpers                                                     *)
(***************************************************************************)
NL == "\n"

NPOS == 0 - 1

\* s.substr(pos): the suffix from 0-based position pos
SubstrFrom(s, pos) == SubSeq(s, pos + 1, Len(s))

\* s.substr(pos, n): n is a size_t, so a negative n is huge, and the count
\* stops at the end of s
Substr(s, pos, n) ==
    SubSeq(s, pos + 1, IF n < 0 \/ pos + n > Len(s) THEN Len(s) ELSE pos + n)

\* s.find(c, from): the first 0-based position >= from holding c, or NPOS
FindChar(s, c, from) ==
    LET hits == {i \in from .. Len(s) - 1 : s[i + 1] = c}
    IN  IF hits = {} THEN NPOS ELSE CHOOSE i \in hits : \A j \in hits : i <= j

\* s.find(t, from): the first 0-based position >= from where t occurs, or NPOS
FindFrom(s, t, from) ==
    LET hits == {i \in from .. Len(s) - Len(t) :
                    \A k \in 1 .. Len(t) : s[i + k] = t[k]}
    IN  IF hits = {} THEN NPOS ELSE CHOOSE i \in hits : \A j \in hits : i <= j

Find(s, t) == FindFrom(s, t, 0)

Contains(s, t) == Find(s, t) # NPOS

\* the sequences over alphabet of length lo..hi
SeqsOf(alphabet, lo, hi) == UNION {[1 .. n -> alphabet] : n \in lo .. hi}

\* the characters trim() strips: " \t\r\n"
TrimChars == {" ", "\t", "\r", NL}

\* trim(s): s without its leading and trailing " \t\r\n"
Trim(s) ==
    IF \A i \in 1 .. Len(s) : s[i] \in TrimChars THEN <<>>
    ELSE SubSeq(s,
                CHOOSE i \in 1 .. Len(s) :
                    /\ s[i] \notin TrimChars
                    /\ \A j \in 1 .. i - 1 : s[j] \in TrimChars,
                CHOOSE i \in 1 .. Len(s) :
                    /\ s[i] \notin TrimChars
                    /\ \A j \in i + 1 .. Len(s) : s[j] \in TrimChars)

\* the elements of a sequence, and the sequences that list a set once each
Range(s) == {s[i] : i \in 1 .. Len(s)}

Orderings(S) == {o \in [1 .. Cardinality(S) -> S] : Range(o) = S}

(***************************************************************************)
(* Bounds of the model                                                     *)
(***************************************************************************)
\* Buffer: total bytes ever appended, bytes per append, largest threshold tried
MaxAppended == 5
MaxChunk == 2
MaxThreshold == 3
\* Clock: hours since the epoch at start, hours per modelled clock step, last reading
StartHour == 100
TickHours == 12
MaxClockSteps == 2
\* Requests: create_request calls, random suffixes drawn, largest vote threshold
MaxCreates == 2
MaxRand == 1
MaxVoteThreshold == 2

MaxBans == 2
MaxRestarts == 1

\* Program: children started, send_string calls, EINTR results per call
MaxRuns == 2
MaxSends == 2
MaxEintr == 1

\* ServerManager: lines the child writes, largest ring limit tried
MaxWritten == 4
MaxLogCache == 2

VARIABLES
    \* ---- dl::Buffer ----
    buffer_,                  \* std::string buffer_
    buffer_ptr_,              \* uint64_t buffer_ptr_
    MAX_DELETED_BUFFER_SIZE,  \* const member set by the constructor
    buf_appended,             \* history: every byte appended, in order
    buf_returned,             \* history: concatenation of the lines returned
    buf_last,                 \* history: what the last read returned
    buf_op,                   \* history: the last Buffer operation
    buf_lock,                 \* std::mutex mutex_: "free", or "deadlocked"
    \* ---- the clock, dl::Program and dl::ServerManager ----
    now,                      \* std::chrono::system_clock::now(), in hours
    prog_running,             \* Program::running_
    sm_running,               \* ServerManager::running_
    stdin_pipe,               \* the lines written to the child's stdin, in order
    \* ---- dl::CommandRequestManager ----
    requests_,                \* unordered_map<string, RequestInfo> requests_
    vote_threshold_,          \* size_t vote_threshold_
    upload_dir,               \* the files present under upload_dir_
    data_file,                \* the content of data_file_ as last saved
    chk_pc,                   \* where the checker thread is in its loop
    to_execute,               \* check_and_execute's local to_execute
    cb_i,                     \* check_and_execute: callbacks already invoked
    images_to_delete,         \* cleanup_expired's local images_to_delete
    n_created,                \* history: create_request calls so far
    cb_count,                 \* history: callback invocations per request id
    cb_line,                  \* history: per request, the line its callback wrote
    voters,                   \* history: per request, the IPs that voted while it was open
    \* ---- dl::PlayerList ----
    all_players_,             \* unordered_set<string> all_players_
    online_players_,          \* online_players_: name -> client_info
    banned_players_,          \* unordered_map<string, BannedPlayerInfo>
    forbidden_commands_,      \* vector<ForbiddenCommand> forbidden_commands_
    player_file,              \* the lines of player_file_ as last saved (a set)
    banned_file,              \* the lines of banned_file_ as last saved (a set)
    sw_pc,                    \* where the ban checker thread is in its loop
    to_unban,                 \* ban_checker_thread_func's local to_unban
    pending_line,             \* the line the log thread has read, <<>> if none
    granted,                  \* history: the hours of the last ban() per player
    n_bans,                   \* history: ban() calls so far
    n_restarts,               \* history: restarts so far
    last_op,                  \* history: the last operation and its result
    \* ---- dl::Program, its child and its send_string caller ----
    child,                    \* the child process: "none", "alive", "exited"
    wstatus,                  \* the wait status of the child that exited
    exit_code_,               \* int exit_code_
    snd,                      \* the send_string call: position and locals
    snd2,                     \* a send_string call of a second thread
    stdin_bytes,              \* the bytes write() has put on stdin_pipe_[1]
    n_runs,                   \* history: children started so far
    n_sends,                  \* history: send_string calls so far
    \* ---- dl::ServerManager: the log thread, the audit ring, main() ----
    stop_log_thread_,         \* atomic<bool> stop_log_thread_
    log_pc,                   \* the log thread: "none", "loop", "done"
    main_pc,                  \* main(): "init", "wait", "shutdown"
    written,                  \* history: the lines the child wrote to stdout
    n_read,                   \* how many of them read_string has returned
    log_cache_,               \* std::deque<ServerLogEntry> log_cache_
    MAX_LOG_CACHE,            \* the size limit of log_cache_
    \* ---- the files on disk and the objects of main() ----
    fs_exists,                \* which of the persisted files exist
    constructed,              \* the components whose constructor has run
    \* ---- the threads and the mutexes ----
    mtx,                      \* per std::mutex: the thread holding it, or "free"
    thr,                      \* per thread: where it is in its function
    stop_checker_,            \* per component: atomic<bool> stop_checker_
    due,                      \* per worker: entries of its local vector left
    branch,                   \* process_log_line: the Command branch taken
    stop_reader_,             \* Program::stop_reader_
    destroyed                 \* the components whose destructor has run

bufVars == <<buffer_, buffer_ptr_, MAX_DELETED_BUFFER_SIZE,
             buf_appended, buf_returned, buf_last, buf_op, buf_lock>>

envVars == <<now, prog_running, sm_running, stdin_pipe, last_op>>

reqVars == <<requests_, vote_threshold_, upload_dir, data_file, chk_pc,
             to_execute, cb_i, images_to_delete, n_created, cb_count, cb_line,
             voters>>

banVars == <<all_players_, online_players_, banned_players_,
             forbidden_commands_, player_file, banned_file, sw_pc, to_unban,
             pending_line, granted, n_bans, n_restarts>>

progVars == <<child, wstatus, exit_code_, snd, snd2, stdin_bytes, n_runs, n_sends>>

supVars == <<stop_log_thread_, log_pc, main_pc, written, n_read, log_cache_,
             MAX_LOG_CACHE>>

\* extVars without fs_exists
thrVars == <<mtx, thr, stop_checker_, due, branch, stop_reader_, destroyed>>

extButFs == <<constructed, thrVars>>

extVars == <<fs_exists, extButFs>>

vars == <<bufVars, envVars, reqVars, banVars, progVars, supVars, extVars>>

(***************************************************************************)
(* The threads and the mutexes                                             *)
(***************************************************************************)
\* PlayerList::mutex_ and PlayerList::checker_mutex_
PL_MUTEX == "PlayerList::mutex_"

PL_CHECKER_MUTEX == "PlayerList::checker_mutex_"

\* CommandRequestManager::mutex_ and CommandRequestManager::checker_mutex_
CR_MUTEX == "CommandRequestManager::mutex_"

CR_CHECKER_MUTEX == "CommandRequestManager::checker_mutex_"

Mutexes == {PL_MUTEX, PL_CHECKER_MUTEX, CR_MUTEX, CR_CHECKER_MUTEX}

\* main(), a request handler of the web server, the log thread of
\* ServerManager, the reader thread of Program, the checker threads of
\* PlayerList (the sweeper) and of CommandRequestManager (the executor)
Threads == {"main", "web", "log", "reader", "sweeper", "executor"}

\* the threads of `started` are at the head of their loop, no other worker
\* exists yet, main() has not started the server, no mutex is held
ThreadsInit(started) ==
    /\ mtx = [m \in Mutexes |-> "free"]
    /\ thr = [t \in Threads |->
                 IF t = "main" THEN "init"
                 ELSE IF t = "web" THEN "idle"
                 ELSE IF t \in started THEN "head"
                 ELSE "none"]
    /\ stop_checker_ = [c \in {"PlayerList", "CommandRequestManager"} |-> FALSE]
    /\ due = [t \in {"sweeper", "executor"} |-> 0]
    /\ branch = "none"
    /\ stop_reader_ = FALSE
    /\ destroyed = {}

(***************************************************************************)
(* dl::Buffer                                                              *)
(***************************************************************************)
BufferBytes == {"a", NL}

\* the bytes not yet consumed by a read
Unread == SubstrFrom(buffer_, buffer_ptr_)

\* Buffer::Buffer(max_deleted_buffer_size)
BufferInitWith(thresholds) ==
    /\ buffer_ = <<>>
    /\ buffer_ptr_ = 0
    /\ MAX_DELETED_BUFFER_SIZE \in thresholds
    /\ buf_appended = <<>>
    /\ buf_returned = <<>>
    /\ buf_last = <<>>
    /\ buf_op = "init"
    /\ buf_lock = "free"

BufferInit == BufferInitWith(0 .. MaxThreshold)

\* Buffer::Buffer() = default: the threshold of the header
DEFAULT_MAX_DELETED_BUFFER_SIZE == 4096

BufferIdle == BufferInitWith({DEFAULT_MAX_DELETED_BUFFER_SIZE})

\* Buffer::append(data)
BufferAppend(data) ==
    /\ buf_lock = "free"
    /\ Len(buf_appended) + Len(data) <= MaxAppended
    /\ buffer_' = buffer_ \o data
    /\ buf_appended' = buf_appended \o data
    /\ buf_op' = "append"
    /\ UNCHANGED <<buffer_ptr_, MAX_DELETED_BUFFER_SIZE, buf_returned, buf_last,
                   buf_lock>>
    /\ UNCHANGED <<envVars, reqVars, banVars, progVars, supVars, extVars>>

\* The compaction at the end of read_line, with the cursor already advanced
CompactDropsOneMore(buf, ptr, max) ==
    IF ptr >= max
    THEN [buffer |-> SubstrFrom(buf, ptr + 1), ptr |-> 0]
    ELSE [buffer |-> buf, ptr |-> ptr]

\* variant: the prefix is dropped only once the cursor is over the threshold
CompactWhenOver(buf, ptr, max) ==
    IF ptr > max
    THEN [buffer |-> SubstrFrom(buf, ptr), ptr |-> 0]
    ELSE [buffer |-> buf, ptr |-> ptr]

Compact(buf, ptr, max) ==
    IF ptr >= max
    THEN [buffer |-> SubstrFrom(buf, ptr), ptr |-> 0]
    ELSE [buffer |-> buf, ptr |-> ptr]

\* variant of read_line: the consumed prefix is never dropped
ReadLineNeverCompacts(buf, ptr, max) ==
    IF ptr >= Len(buf)
    THEN [result |-> <<>>, buffer |-> buf, ptr |-> ptr]
    ELSE LET newline_pos == FindChar(buf, NL, ptr)
         IN  IF newline_pos = NPOS
             THEN [result |-> <<>>, buffer |-> buf, ptr |-> ptr]
             ELSE [result |-> Substr(buf, ptr, newline_pos - ptr + 1),
                   buffer |-> buf, ptr |-> newline_pos + 1]

\* Buffer::read_line(): the returned string and the new buffer and cursor
ReadLineResult(buf, ptr, max) ==
    IF ptr >= Len(buf)
    THEN [result |-> <<>>, buffer |-> buf, ptr |-> ptr]
    ELSE LET newline_pos == FindChar(buf, NL, ptr)
         IN  IF newline_pos = NPOS
             THEN [result |-> <<>>, buffer |-> buf, ptr |-> ptr]
             ELSE LET c == Compact(buf, newline_pos + 1, max)
                  IN  [result |-> Substr(buf, ptr, newline_pos - ptr + 1),
                       buffer |-> c.buffer, ptr |-> c.ptr]

BufferReadLine ==
    LET r == ReadLineResult(buffer_, buffer_ptr_, MAX_DELETED_BUFFER_SIZE)
    IN  /\ buf_lock = "free"
        /\ buffer_' = r.buffer
        /\ buffer_ptr_' = r.ptr
        /\ buf_returned' = buf_returned \o r.result
        /\ buf_last' = r.result
        /\ buf_op' = "read_line"
        /\ UNCHANGED <<MAX_DELETED_BUFFER_SIZE, buf_appended, buf_lock>>
        /\ UNCHANGED <<envVars, reqVars, banVars, progVars, supVars, extVars>>

BufferNext ==
    \/ \E data \in SeqsOf(BufferBytes, 1, MaxChunk) : BufferAppend(data)
    \/ BufferReadLine

\* clear() locks mutex_, a std::mutex that read_all() already holds on the
\* same thread: undefined behaviour; the thread blocks for ever on its own
\* lock, or the second lock goes through
RelockOutcomes == {"deadlock", "proceeds"}

\* Buffer::read_all(), with the outcome of the lock taken again by clear()
BufferReadAll(relock) ==
    /\ buf_lock = "free"
    /\ buf_op' = "read_all"
    /\ IF buffer_ptr_ >= Len(buffer_)
       THEN /\ buf_last' = <<>>
            /\ UNCHANGED <<buffer_, buffer_ptr_, buf_lock>>
       ELSE IF relock = "deadlock"
       THEN /\ buf_lock' = "deadlocked"
            /\ UNCHANGED <<buffer_, buffer_ptr_, buf_last>>
       ELSE /\ buf_last' = SubstrFrom(buffer_, buffer_ptr_)
            /\ buffer_' = <<>>
            /\ buffer_ptr_' = 0
            /\ UNCHANGED buf_lock
    /\ UNCHANGED <<MAX_DELETED_BUFFER_SIZE, buf_appended, buf_returned>>
    /\ UNCHANGED <<envVars, reqVars, banVars, progVars, supVars, extVars>>

BufferAllNext ==
    \/ \E data \in SeqsOf(BufferBytes, 1, MaxChunk) : BufferAppend(data)
    \/ BufferReadLine
    \/ \E relock \in RelockOutcomes : BufferReadAll(relock)

(***************************************************************************)
(* Claims about dl::Buffer                                                 *)
(***************************************************************************)
\* the prefix of s up to and including its last newline, and what follows it
LastNewline(s) ==
    LET hits == {i \in 1 .. Len(s) : s[i] = NL}
    IN  IF hits = {} THEN 0 ELSE CHOOSE i \in hits : \A j \in hits : j <= i

UpToLastNewline(s) == SubSeq(s, 1, LastNewline(s))

AfterLastNewline(s) == SubSeq(s, LastNewline(s) + 1, Len(s))

\* C1: under every interleaving of append and read_line, no byte is lost,
\* duplicated or reordered: the lines returned so far followed by the unread
\* bytes are the appended stream; every returned non-empty string ends with
\* its only newline; and once read_line returns empty, the returned lines are
\* the appended stream up to and including its last newline and the unread
\* remainder is exactly what follows that newline.
C1_LineStream ==
    /\ buf_returned \o Unread = buf_appended
    /\ buffer_ptr_ <= Len(buffer_)
    /\ buf_op = "read_line" /\ buf_last # <<>> =>
          /\ buf_last[Len(buf_last)] = NL
          /\ \A i \in 1 .. Len(buf_last) - 1 : buf_last[i] # NL
    /\ buf_op = "read_line" /\ buf_last = <<>> =>
          /\ buf_returned = UpToLastNewline(buf_appended)
          /\ Unread = AfterLastNewline(buf_appended)

\* two lines were returned, the buffer was compacted, and a partial line is left
C1_Witness ==
    /\ buf_op = "read_line"
    /\ buf_last = <<>>
    /\ Len(buf_returned) >= 3
    /\ LastNewline(SubSeq(buf_returned, 1, Len(buf_returned) - 1)) > 0
    /\ Unread # <<>>
    /\ Len(buffer_) < Len(buf_appended)

\* the step appends; the step is a read_line() call
AppendStep == buf_appended' # buf_appended

ReadLineStep == buf_appended' = buf_appended /\ buf_op' = "read_line"

\* the positions (counted from 1) of the newlines at or after the cursor
NewlinesAhead == {i \in buffer_ptr_ + 1 .. Len(buffer_) : buffer_[i] = NL}

\* the cursor just after the first of them
Advanced == CHOOSE i \in NewlinesAhead : \A j \in NewlinesAhead : i <= j

\* the bytes of buf after its first n
DropFirst(buf, n) == [i \in 1 .. Len(buf) - n |-> buf[i + n]]

\* append leaves the cursor and the bytes already buffered; read_line without
\* a newline ahead returns "" and changes nothing; read_line with one returns
\* a line and, when the advanced cursor is >= the threshold, drops the
\* consumed prefix in that call and sets the cursor to 0, the unread bytes
\* being the same either way
AppendAndReadLineEffect ==
    /\ AppendStep =>
          /\ buffer_ptr_' = buffer_ptr_
          /\ Len(buffer_') > Len(buffer_)
          /\ \A i \in 1 .. Len(buffer_) : buffer_'[i] = buffer_[i]
    /\ (ReadLineStep /\ NewlinesAhead = {}) =>
          /\ buf_last' = <<>>
          /\ buffer_' = buffer_
          /\ buffer_ptr_' = buffer_ptr_
    /\ (ReadLineStep /\ NewlinesAhead # {}) =>
          /\ buf_last' # <<>>
          /\ IF Advanced >= MAX_DELETED_BUFFER_SIZE
             THEN /\ buffer_ptr_' = 0
                  /\ buffer_' = DropFirst(buffer_, Advanced)
             ELSE /\ buffer_ptr_' = Advanced
                  /\ buffer_' = buffer_
          /\ DropFirst(buffer_', buffer_ptr_') = DropFirst(buffer_, Advanced)

ReachesThresholdStep ==
    /\ ReadLineStep
    /\ NewlinesAhead # {}
    /\ Advanced = MAX_DELETED_BUFFER_SIZE

ClockValues == {StartHour + k * TickHours : k \in 0 .. MaxClockSteps}

\* main(): Program and ServerManager are constructed, nothing is started yet
EnvInit ==
    /\ now = StartHour
    /\ prog_running = FALSE
    /\ sm_running = FALSE
    /\ stdin_pipe = <<>>
    /\ last_op = [op |-> "init"]

\* time passes
AdvanceClock ==
    /\ now + TickHours \in ClockValues
    /\ now' = now + TickHours
    /\ last_op' = [op |-> "clock"]
    /\ UNCHANGED <<prog_running, sm_running, stdin_pipe, bufVars, reqVars, banVars, progVars, supVars, extVars>>

\* Program::send_string(data) on the pipe: whether it wrote, and the pipe after
SendStringIgnoresRunning(pipe, running, data) ==
    [ok |-> TRUE, pipe |-> Append(pipe, data)]

SendString(pipe, running, data) ==
    IF ~running
    THEN [ok |-> FALSE, pipe |-> pipe]
    ELSE [ok |-> TRUE, pipe |-> Append(pipe, data)]

\* command without one leading '/'
StripSlash(command) ==
    IF command # <<>> /\ command[1] = "/" THEN SubstrFrom(command, 1) ELSE command

\* ServerManager::execute_command(command): what Program::send_string returns
\* and leaves in the pipe; ok is FALSE when the command was not sent
ExecuteCommand(pipe, sm_run, prog_run, command) ==
    IF ~sm_run
    THEN [ok |-> FALSE, pipe |-> pipe]
    ELSE SendString(pipe, prog_run, StripSlash(command) \o <<NL>>)

\* ServerManager::start(): Program::run() forks the child
SMStart ==
    /\ ~sm_running
    /\ ~prog_running
    /\ prog_running' = TRUE
    /\ sm_running' = TRUE
    /\ last_op' = [op |-> "start"]
    /\ UNCHANGED <<now, stdin_pipe, bufVars, reqVars, banVars, progVars, supVars, extVars>>

\* Program::reader_thread_func sees the child gone (waitpid) and clears running_
ChildExit ==
    /\ prog_running
    /\ prog_running' = FALSE
    /\ last_op' = [op |-> "child_exit"]
    /\ UNCHANGED <<now, sm_running, stdin_pipe, bufVars, reqVars, banVars, progVars, supVars, extVars>>

\* ServerManager::stop(), from the signal handler
SMStop ==
    /\ sm_running
    /\ sm_running' = FALSE
    /\ last_op' = [op |-> "stop"]
    /\ UNCHANGED <<now, prog_running, stdin_pipe, bufVars, reqVars, banVars, progVars, supVars, extVars>>

(***************************************************************************)
(* dl::CommandRequestManager                                               *)
(***************************************************************************)
IPs == {"1.2.3.4", "1.2.3.5"}

\* generate_id(): hex of the millisecond clock, "-", a random 1000..9999;
\* rnd stands for the sub-step milliseconds and the random number together
GenerateId(clock, rnd) == <<clock, rnd>>

AllIds == {GenerateId(t, r) : t \in ClockValues, r \in 1 .. MaxRand}

\* the time_point of a default-constructed RequestInfo: the epoch
EPOCH == 0

\* cleanup_expired: executed requests are dropped after this many hours
EXPIRE_HOURS == 24

\* image_data empty: no image
NoImage == <<>>

\* the create_request calls tried: applicant, command, reason, image_ext
CreateInputs ==
    {<<<<"B", "o", "b">>, <<" ", "/", "k", " ">>, <<"r">>, <<".png">>>>,
     <<<<"B", "o", "b">>, <<"s">>, <<"r", NL, "x", NL>>, NoImage>>}

\* requests_[id] = info
Put(map, key, val) ==
    [k \in DOMAIN map \cup {key} |-> IF k = key THEN val ELSE map[k]]

\* save_data(): the blocks written, one per request; executed_at is written
\* only for an executed request
SaveData(reqs) ==
    [id \in DOMAIN reqs |->
        [id |-> reqs[id].id,
         applicant |-> reqs[id].applicant,
         command |-> reqs[id].command,
         reason |-> reqs[id].reason,
         image |-> reqs[id].image_path,
         created |-> reqs[id].created_at,
         executed |-> reqs[id].executed,
         executed_at |-> IF reqs[id].executed
                         THEN <<reqs[id].executed_at>> ELSE <<>>,
         votes |-> reqs[id].voted_ips]]

\* CommandRequestManager(...) with no data file: load_data() returns at once
ReqInitWith(thresholds) ==
    /\ requests_ = <<>>
    /\ vote_threshold_ \in thresholds
    /\ upload_dir = {}
    /\ data_file = <<>>
    /\ chk_pc = "wait"
    /\ to_execute = <<>>
    /\ cb_i = 0
    /\ images_to_delete = {}
    /\ n_created = 0
    /\ cb_count = [id \in AllIds |-> 0]
    /\ cb_line = [u \in 1 .. MaxCreates |-> <<>>]
    /\ voters = [u \in 1 .. MaxCreates |-> {}]

ReqInit == ReqInitWith(1 .. MaxVoteThreshold)

\* the threshold main() passes
MAIN_VOTE_THRESHOLD == 5

ReqIdle == ReqInitWith({MAIN_VOTE_THRESHOLD})

\* create_request(applicant, command, reason, image_data, image_ext)
CreateRequestAs(applicant, command, reason, image_ext, rnd, op) ==
    LET id == GenerateId(now, rnd)
        filename == <<id, image_ext>>
        info == [id |-> id,
                 applicant |-> Trim(applicant),
                 command |-> Trim(command),
                 reason |-> Trim(reason),
                 image_path |-> IF image_ext # NoImage THEN filename ELSE <<>>,
                 voted_ips |-> {},
                 created_at |-> now,
                 executed_at |-> EPOCH,
                 executed |-> FALSE,
                 uid |-> n_created + 1]
    IN  /\ n_created < MaxCreates
        /\ upload_dir' = IF image_ext # NoImage
                         THEN upload_dir \cup {filename} ELSE upload_dir
        /\ requests_' = Put(requests_, id, info)
        /\ data_file' = SaveData(requests_')
        /\ fs_exists' = fs_exists \cup {"data_file"}
        /\ n_created' = n_created + 1
        /\ last_op' = op
        /\ UNCHANGED <<vote_threshold_, chk_pc, to_execute, cb_i,
                       images_to_delete, cb_count, cb_line, voters>>
        /\ UNCHANGED <<now, prog_running, sm_running, stdin_pipe, bufVars, banVars, progVars, supVars, extButFs>>

\* create_request called directly
CreateRequest(applicant, command, reason, image_ext, rnd) ==
    CreateRequestAs(applicant, command, reason, image_ext, rnd,
                    [op |-> "create"])

\* vote(request_id, ip): the status returned and the map afterwards
VoteChecksDuplicateFirst(reqs, id, ip) ==
    IF id \notin DOMAIN reqs THEN [rc |-> 2, requests |-> reqs]
    ELSE IF ip \in reqs[id].voted_ips THEN [rc |-> 1, requests |-> reqs]
    ELSE IF reqs[id].executed THEN [rc |-> 3, requests |-> reqs]
    ELSE [rc |-> 0,
          requests |-> [reqs EXCEPT ![id].voted_ips = @ \cup {ip}]]

VoteCountsDuplicates(reqs, id, ip) ==
    IF id \notin DOMAIN reqs THEN [rc |-> 2, requests |-> reqs]
    ELSE IF reqs[id].executed THEN [rc |-> 3, requests |-> reqs]
    ELSE [rc |-> 0,
          requests |-> [reqs EXCEPT ![id].voted_ips = @ \cup {ip}]]

\* variant: vote() without the test of the executed flag
VoteIgnoresExecuted(reqs, id, ip) ==
    IF id \notin DOMAIN reqs THEN [rc |-> 2, requests |-> reqs]
    ELSE IF ip \in reqs[id].voted_ips THEN [rc |-> 1, requests |-> reqs]
    ELSE [rc |-> 0,
          requests |-> [reqs EXCEPT ![id].voted_ips = @ \cup {ip}]]

VoteResult(reqs, id, ip) ==
    IF id \notin DOMAIN reqs THEN [rc |-> 2, requests |-> reqs]
    ELSE IF reqs[id].executed THEN [rc |-> 3, requests |-> reqs]
    ELSE IF ip \in reqs[id].voted_ips THEN [rc |-> 1, requests |-> reqs]
    ELSE [rc |-> 0,
          requests |-> [reqs EXCEPT ![id].voted_ips = @ \cup {ip}]]

Vote(id, ip) ==
    LET v == VoteResult(requests_, id, ip)
    IN  /\ requests_' = v.requests
        /\ last_op' = [op |-> "vote", id |-> id, ip |-> ip, rc |-> v.rc]
        /\ voters' = IF id \in DOMAIN requests_ /\ ~requests_[id].executed
                      THEN [voters EXCEPT ![requests_[id].uid] = @ \cup {ip}]
                      ELSE voters
        /\ UNCHANGED <<vote_threshold_, upload_dir, data_file, chk_pc,
                       to_execute, cb_i, images_to_delete, n_created,
                       cb_count, cb_line>>
        /\ UNCHANGED <<now, prog_running, sm_running, stdin_pipe, bufVars, banVars, progVars, supVars, extVars>>

\* check_and_execute, under mutex_: the requests it marks
ReadyToExecute(reqs, threshold) ==
    {id \in DOMAIN reqs :
        ~reqs[id].executed /\ Cardinality(reqs[id].voted_ips) >= threshold}

\* check_and_execute, under mutex_: mark every ready request and copy it to
\* to_execute, in the iteration order of the unordered_map
CheckMark ==
    LET ready == ReadyToExecute(requests_, vote_threshold_)
    IN  /\ chk_pc = "wait"
        /\ requests_' = [id \in DOMAIN requests_ |->
                            IF id \in ready
                            THEN [requests_[id] EXCEPT !.executed = TRUE,
                                                       !.executed_at = now]
                            ELSE requests_[id]]
        /\ \E order \in Orderings(ready) :
              to_execute' = [i \in 1 .. Len(order) |-> requests_'[order[i]]]
        /\ cb_i' = 0
        /\ chk_pc' = IF ready = {} THEN "cleanup" ELSE "callbacks"
        /\ last_op' = [op |-> "mark"]
        /\ UNCHANGED <<vote_threshold_, upload_dir, data_file,
                       images_to_delete, n_created, cb_count, cb_line, voters>>
        /\ UNCHANGED <<now, prog_running, sm_running, stdin_pipe, bufVars, banVars, progVars, supVars, extVars>>

\* check_and_execute, outside the lock: execute_callback_(command, applicant)
\* for the next entry of to_execute; main() passes execute_command
ExecCallback ==
    /\ chk_pc = "callbacks"
    /\ cb_i < Len(to_execute)
    /\ LET req == to_execute[cb_i + 1]
           sent == ExecuteCommand(stdin_pipe, sm_running, prog_running,
                                  req.command)
       IN  /\ stdin_pipe' = sent.pipe
           /\ cb_count' = [cb_count EXCEPT ![req.id] = @ + 1]
           /\ cb_line' = [cb_line EXCEPT ![req.uid] =
                             IF sent.ok THEN sent.pipe[Len(sent.pipe)] ELSE <<>>]
           /\ last_op' = [op |-> "callback"]
    /\ cb_i' = cb_i + 1
    /\ UNCHANGED <<requests_, vote_threshold_, upload_dir, data_file, chk_pc,
                   to_execute, images_to_delete, n_created, voters>>
    /\ UNCHANGED <<now, prog_running, sm_running, bufVars, banVars, progVars, supVars, extVars>>

\* check_and_execute: save_data() after the callbacks
ExecSave ==
    /\ chk_pc = "callbacks"
    /\ cb_i = Len(to_execute)
    /\ data_file' = SaveData(requests_)
    /\ fs_exists' = fs_exists \cup {"data_file"}
    /\ to_execute' = <<>>
    /\ cb_i' = 0
    /\ chk_pc' = "cleanup"
    /\ last_op' = [op |-> "exec_save"]
    /\ UNCHANGED <<requests_, vote_threshold_, upload_dir, images_to_delete,
                   n_created, cb_count, cb_line, voters>>
    /\ UNCHANGED <<now, prog_running, sm_running, stdin_pipe, bufVars, banVars, progVars, supVars, extButFs>>

\* duration_cast<hours>(later - earlier).count()
HoursBetween(later, earlier) == later - earlier

\* cleanup_expired, under mutex_: the requests it removes
ExpiredAfterMoreThan(reqs, clock) ==
    {id \in DOMAIN reqs :
        reqs[id].executed
        /\ HoursBetween(clock, reqs[id].executed_at) > EXPIRE_HOURS}

Expired(reqs, clock) ==
    {id \in DOMAIN reqs :
        reqs[id].executed
        /\ HoursBetween(clock, reqs[id].executed_at) >= EXPIRE_HOURS}

\* cleanup_expired, under mutex_: erase the expired requests
CleanupErase ==
    LET gone == Expired(requests_, now)
    IN  /\ chk_pc = "cleanup"
        /\ requests_' = [id \in DOMAIN requests_ \ gone |-> requests_[id]]
        /\ images_to_delete' = {requests_[id].image_path : id \in gone} \ {<<>>}
        /\ chk_pc' = IF gone = {} THEN "wait" ELSE "delete"
        /\ last_op' = [op |-> "cleanup"]
        /\ UNCHANGED <<vote_threshold_, upload_dir, data_file, to_execute, cb_i,
                       n_created, cb_count, cb_line, voters>>
        /\ UNCHANGED <<now, prog_running, sm_running, stdin_pipe, bufVars, banVars, progVars, supVars, extVars>>

\* cleanup_expired, outside the lock: delete_image for each, then save_data()
CleanupDelete ==
    /\ chk_pc = "delete"
    /\ upload_dir' = upload_dir \ images_to_delete
    /\ images_to_delete' = {}
    /\ data_file' = SaveData(requests_)
    /\ fs_exists' = fs_exists \cup {"data_file"}
    /\ chk_pc' = "wait"
    /\ last_op' = [op |-> "delete"]
    /\ UNCHANGED <<requests_, vote_threshold_, to_execute, cb_i, n_created,
                   cb_count, cb_line, voters>>
    /\ UNCHANGED <<now, prog_running, sm_running, stdin_pipe, bufVars, banVars, progVars, supVars, extButFs>>

RequestsNext ==
    \/ \E in \in CreateInputs, rnd \in 1 .. MaxRand :
          CreateRequest(in[1], in[2], in[3], in[4], rnd)
    \/ \E id \in AllIds, ip \in IPs : Vote(id, ip)
    \/ CheckMark
    \/ ExecCallback
    \/ ExecSave
    \/ CleanupErase
    \/ CleanupDelete
    \/ AdvanceClock
    \/ SMStart
    \/ ChildExit

(***************************************************************************)
(* Claims about dl::CommandRequestManager                                  *)
(***************************************************************************)
VotesOf(reqs, id) == Cardinality(reqs[id].voted_ips)

\* C2: a vote that returns 0 adds the ip to the request's votedIPs, which grows
\* by exactly one, and changes nothing else in the map; a vote that returns 1,
\* 2 or 3 leaves the whole request map unchanged; so the votedIPs of an
\* unexecuted request are exactly the distinct IPs that voted for it.
C2_VoteEffect ==
    /\ [][last_op'.op = "vote" =>
            LET id == last_op'.id
                ip == last_op'.ip
            IN  /\ last_op'.rc \in 0 .. 3
                /\ last_op'.rc = 0 =>
                      /\ id \in DOMAIN requests_
                      /\ ip \notin requests_[id].voted_ips
                      /\ requests_' =
                            [requests_ EXCEPT ![id].voted_ips = @ \cup {ip}]
                      /\ VotesOf(requests_', id) = VotesOf(requests_, id) + 1
                /\ last_op'.rc # 0 => requests_' = requests_]_vars
    /\ [](\A id \in DOMAIN requests_ :
            ~requests_[id].executed =>
                requests_[id].voted_ips = voters[requests_[id].uid])

\* a vote returned 0 and brought a request to two votes, beside another request
C2_Witness ==
    /\ last_op.op = "vote"
    /\ last_op.rc = 0
    /\ last_op.id \in DOMAIN requests_
    /\ requests_[last_op.id].voted_ips = IPs
    /\ Cardinality(DOMAIN requests_) = 2

\* C3: vote returns 2 exactly when the id is not in the map, 3 exactly when
\* the request exists and is executed, 1 exactly when it exists, is unexecuted
\* and the ip has already voted, and 0 otherwise.
C3_VoteStatus ==
    [][last_op'.op = "vote" =>
          LET id == last_op'.id
              ip == last_op'.ip
              rc == last_op'.rc
              exists == id \in DOMAIN requests_
          IN  /\ rc = 2 <=> ~exists
              /\ rc = 3 <=> exists /\ requests_[id].executed
              /\ rc = 1 <=> /\ exists
                            /\ ~requests_[id].executed
                            /\ ip \in requests_[id].voted_ips
              /\ rc = 0 <=> /\ exists
                            /\ ~requests_[id].executed
                            /\ ip \notin requests_[id].voted_ips]_vars

\* an ip that had voted votes again on the executed request and gets 3
C3_Witness ==
    /\ last_op.op = "vote"
    /\ last_op.rc = 3
    /\ last_op.id \in DOMAIN requests_
    /\ last_op.ip \in requests_[last_op.id].voted_ips

\* C4: a sweep marks every unexecuted request that has reached the threshold,
\* sets its executedAt, and invokes the callback for it once in that tick;
\* over a whole run the callback is invoked at most once per request id, and
\* never for a request that was marked below the threshold.
C4_ExecutedOncePerId ==
    /\ last_op.op = "mark" => ReadyToExecute(requests_, vote_threshold_) = {}
    /\ \A id \in DOMAIN requests_ :
          requests_[id].executed =>
              /\ VotesOf(requests_, id) >= vote_threshold_
              /\ requests_[id].executed_at \in ClockValues
              /\ chk_pc # "callbacks" => cb_count[id] >= 1
    /\ \A id \in AllIds : cb_count[id] <= 1

\* C5: once the executor is done with a request it marked executed, the
\* request's command (less its leading '/') followed by a newline has been
\* written to the child's stdin.
C5_ExecutedIsDelivered ==
    chk_pc # "callbacks" =>
        \A id \in DOMAIN requests_ :
            requests_[id].executed =>
                LET line == StripSlash(requests_[id].command) \o <<NL>>
                IN  /\ cb_line[requests_[id].uid] = line
                    /\ line \in Range(stdin_pipe)

\* the request stored under id before the step is no longer in the map after it
Removed(id) ==
    \/ id \notin DOMAIN requests_'
    \/ requests_'[id].uid # requests_[id].uid

\* C6: a request leaves the map only in the cleaner, and only if it is
\* executed and at least 24 h have passed since executedAt; the cleaner
\* removes every such request; an unexecuted request is never removed.
C6_RemovedOnlyByCleaner ==
    [][/\ \A id \in DOMAIN requests_ :
             Removed(id) =>
                 /\ last_op'.op = "cleanup"
                 /\ requests_[id].executed
                 /\ now - requests_[id].executed_at >= 24
       /\ last_op'.op = "cleanup" =>
             \A id \in DOMAIN requests_ :
                 requests_[id].executed /\ now - requests_[id].executed_at >= 24
                     => id \notin DOMAIN requests_']_vars

\* C36: a request that is marked executed stays executed, and its votedIPs
\* and executedAt do not change, for as long as it is in the map; a vote on a
\* request is recorded (0) only while the request is unmarked and is rejected
\* with 3 once it is marked; the step that sets executed is the executor's
\* marking step, and it sets executedAt to the clock reading of that step.
C36_ExecutedIsFinal ==
    [][/\ \A id \in DOMAIN requests_ :
             requests_[id].executed /\ ~Removed(id) =>
                 /\ requests_'[id].executed
                 /\ requests_'[id].voted_ips = requests_[id].voted_ips
                 /\ requests_'[id].executed_at = requests_[id].executed_at
       /\ \A id \in DOMAIN requests_ :
             ~requests_[id].executed /\ ~Removed(id) /\ requests_'[id].executed =>
                 /\ last_op'.op = "mark"
                 /\ requests_'[id].executed_at = now
                 /\ requests_'[id].voted_ips = requests_[id].voted_ips
       /\ last_op'.op = "vote" /\ last_op'.id \in DOMAIN requests_ =>
             LET id == last_op'.id
             IN  /\ last_op'.rc = 0 =>
                       /\ ~requests_[id].executed
                       /\ last_op'.ip \in requests_'[id].voted_ips
                 /\ requests_[id].executed => last_op'.rc = 3]_vars

\* an ip that had not voted votes on a request the executor has marked: the
\* vote is rejected with 3 and the votes are those recorded before the mark
C36_Witness ==
    /\ last_op.op = "vote"
    /\ last_op.rc = 3
    /\ last_op.id \in DOMAIN requests_
    /\ requests_[last_op.id].executed
    /\ requests_[last_op.id].voted_ips = IPs \ {last_op.ip}
    /\ requests_[last_op.id].executed_at \in ClockValues

\* C39: every create_request adds an entry under an id that was not in the
\* map: the map grows by exactly one and every request that was stored stays
\* as it was, with its votes, executed flag and image.
C39_CreateAddsNewEntry ==
    [][n_created' = n_created + 1 =>
          /\ Cardinality(DOMAIN requests_') = Cardinality(DOMAIN requests_) + 1
          /\ \A id \in DOMAIN requests_ :
                id \in DOMAIN requests_' /\ requests_'[id] = requests_[id]]_vars

\* C7: outside the cleaner's deletion pass, the files in the upload directory
\* are exactly the images of the requests in the map: no image of a removed
\* request remains, no image of a present request is missing, none is orphaned.
C7_ImagesMatchRequests ==
    chk_pc # "delete" =>
        upload_dir = {requests_[id].image_path : id \in DOMAIN requests_} \ {<<>>}

(***************************************************************************)
(* dl::PlayerList                                                          *)
(***************************************************************************)
\* the character \x1b
ESC == "ESC"

UpperCase ==
    <<"A", "B", "C", "D", "E", "F", "G", "H", "I", "J", "K", "L", "M", "N",
      "O", "P", "Q", "R", "S", "T", "U", "V", "W", "X", "Y", "Z">>

LowerCase ==
    <<"a", "b", "c", "d", "e", "f", "g", "h", "i", "j", "k", "l", "m", "n",
      "o", "p", "q", "r", "s", "t", "u", "v", "w", "x", "y", "z">>

DigitChars == <<"0", "1", "2", "3", "4", "5", "6", "7", "8", "9">>

Digits == Range(DigitChars)

Letters == Range(UpperCase) \cup Range(LowerCase)

LowerOf == [c \in Range(UpperCase) |->
               LowerCase[CHOOSE i \in 1 .. Len(UpperCase) : UpperCase[i] = c]]

\* ::tolower on one character
ToLowerChar(c) == IF c \in DOMAIN LowerOf THEN LowerOf[c] ELSE c

to_lower(s) == [i \in 1 .. Len(s) |-> ToLowerChar(s[i])]

remove_spaces(s) == SelectSeq(s, LAMBDA c : c # " " /\ c # "\t")

\* remove_ansi: the first position from i on that holds no digit and no ';'
SkipParams(s, i) ==
    LET stops == {j \in i .. Len(s) :
                     j = Len(s) \/ s[j + 1] \notin Digits \cup {";"}}
    IN  CHOOSE j \in stops : \A k \in stops : j <= k

\* remove_ansi: the loop from position i on
RECURSIVE RemoveAnsiFrom(_, _)
RemoveAnsiFrom(s, i) ==
    IF i >= Len(s) THEN <<>>
    ELSE IF s[i + 1] = ESC
    THEN IF i + 1 < Len(s) /\ s[i + 2] = "["
         THEN LET j == SkipParams(s, i + 2)
              IN  RemoveAnsiFrom(s, IF j < Len(s) /\ s[j + 1] \in Letters
                                    THEN j + 1 ELSE j)
         ELSE RemoveAnsiFrom(s, i + 1)
    ELSE IF /\ s[i + 1] = "["
            /\ i + 1 < Len(s)
            /\ s[i + 2] \in Digits
            /\ SkipParams(s, i + 1) < Len(s)
            /\ s[SkipParams(s, i + 1) + 1] = "m"
    THEN RemoveAnsiFrom(s, SkipParams(s, i + 1) + 1)
    ELSE <<s[i + 1]>> \o RemoveAnsiFrom(s, i + 1)

remove_ansi(s) == RemoveAnsiFrom(s, 0)

\* s.rfind(t, pos): the last occurrence of t that starts at or before pos
RFind(s, t, pos) ==
    LET hits == {i \in 0 .. Len(s) - Len(t) :
                    i <= pos /\ Substr(s, i, Len(t)) = t}
    IN  IF hits = {} THEN NPOS ELSE CHOOSE i \in hits : \A j \in hits : j <= i

\* while (!s.empty() && s.back() == '\n') s.pop_back()
PopNewlines(s) ==
    IF \A i \in 1 .. Len(s) : s[i] = NL THEN <<>>
    ELSE SubSeq(s, 1, CHOOSE i \in 1 .. Len(s) :
                          /\ s[i] # NL
                          /\ \A j \in i + 1 .. Len(s) : s[j] = NL)

\* time_point::max(), the unban time of a permanent ban
TIME_MAX == 999

\* what mktime gives for the zeroed tm that a failed std::get_time leaves:
\* a time long before any clock reading
MKTIME_OF_ZERO_TM == 1

\* "0000-00-00 00:00:00"; a time string is modelled by the three decimal
\* digits of the hour count in place of "%Y-%m-%d %H:%M:%S"
NEVER_STRING == <<"0", "0", "0">>

DigitValue(c) == (CHOOSE i \in 1 .. Len(DigitChars) : DigitChars[i] = c) - 1

time_to_string(tp, permanent) ==
    IF permanent THEN NEVER_STRING
    ELSE <<DigitChars[((tp \div 100) % 10) + 1],
           DigitChars[((tp \div 10) % 10) + 1],
           DigitChars[(tp % 10) + 1]>>

\* std::get_time reads the leading time and ignores what follows it
string_to_time(s) ==
    IF s = NEVER_STRING THEN TIME_MAX
    ELSE IF Len(s) >= 3 /\ \A i \in 1 .. 3 : s[i] \in Digits
    THEN 100 * DigitValue(s[1]) + 10 * DigitValue(s[2]) + DigitValue(s[3])
    ELSE MKTIME_OF_ZERO_TM

JOINED_WITH ==
    <<" ", "j", "o", "i", "n", "e", "d", " ", "w", "i", "t", "h", " ">>

PLAYER_WORD ==
    <<"P", "l", "a", "y", "e", "r", " ">>

JOINED_GAME ==
    <<" ", "j", "o", "i", "n", "e", "d", " ", "t", "h", "e", " ", "g", "a",
      "m", "e">>

LEFT_GAME ==
    <<" ", "l", "e", "f", "t", " ", "t", "h", "e", " ", "g", "a", "m", "e">>

ISSUED_COMMAND ==
    <<" ", "i", "s", "s", "u", "e", "d", " ", "s", "e", "r", "v", "e", "r",
      " ", "c", "o", "m", "m", "a", "n", "d", ":", " ", "/">>

VANILLA ==
    <<"v", "a", "n", "i", "l", "l", "a">>

CONTENT_MARK ==
    <<"]", ":", " ">>

\* the literals of the ban reason (Chinese in the source), each kept as one
\* opaque element: none of them holds a '|' or a newline
REASON_COMMAND == <<"(forbidden command): /">>

REASON_ACTION == <<"(forbidden action): [">>

REASON_ACTION_END == <<"]">>

REASON_WILL_BE == <<", (will be)">>

REASON_UNTIL == <<"(banned until)">>

REASON_STOP == <<"(.)">>

REASON_FOREVER == <<"(banned for ever.)">>

REASON_APPEAL == <<"(appeal on the web site.)">>

\* ", 将被" + (ban_hours != 0 ? "封禁至" + time_str + "。" : "永久封禁。") + ...
ReasonTail(ban_hours, clock) ==
    REASON_WILL_BE
    \o (IF ban_hours # 0
        THEN REASON_UNTIL \o time_to_string(clock + ban_hours, FALSE)
             \o REASON_STOP
        ELSE REASON_FOREVER)
    \o REASON_APPEAL

CommandReason(content, ban_hours, clock) ==
    REASON_COMMAND \o content \o ReasonTail(ban_hours, clock)

ActionReason(content, ban_hours, clock) ==
    REASON_ACTION \o content \o REASON_ACTION_END \o ReasonTail(ban_hours, clock)

\* to_lower(remove_spaces(fc.command))
Keyword(fc) == to_lower(remove_spaces(fc.command))

\* the loop over forbidden_commands_ from rule i on: the rules for which ban()
\* is called, one call leaving the loop; first a variant that never leaves it
RECURSIVE RuleLoopNoBreak(_, _, _, _)
RuleLoopNoBreak(rules, match_str, has_player, i) ==
    IF i > Len(rules) THEN <<>>
    ELSE IF Contains(match_str, Keyword(rules[i])) /\ has_player
    THEN <<i>> \o RuleLoopNoBreak(rules, match_str, has_player, i + 1)
    ELSE RuleLoopNoBreak(rules, match_str, has_player, i + 1)

RECURSIVE RuleLoop(_, _, _, _)
RuleLoop(rules, match_str, has_player, i) ==
    IF i > Len(rules) THEN <<>>
    ELSE IF Contains(match_str, Keyword(rules[i])) /\ has_player
    THEN <<i>>
    ELSE RuleLoop(rules, match_str, has_player, i + 1)

\* the text after "]: " of the cleaned line
Content(log_line) ==
    LET clean_line == remove_ansi(log_line)
        content_start == Find(clean_line, CONTENT_MARK)
    IN  SubstrFrom(clean_line, content_start + Len(CONTENT_MARK))

HasContent(log_line) == Find(remove_ansi(log_line), CONTENT_MARK) # NPOS

\* the branch conditions of process_log_line, in the order it tests them
IsJoinWith(content) ==
    /\ Find(content, JOINED_WITH) # NPOS
    /\ RFind(content, PLAYER_WORD, Find(content, JOINED_WITH)) # NPOS

IsJoinGame(content) == Find(content, JOINED_GAME) # NPOS

\* the Leave test, first in a variant that gives way to a chat line
IsLeaveUnlessChat(content) ==
    /\ Find(content, LEFT_GAME) # NPOS
    /\ ~(content # <<>> /\ content[1] = "<")

IsLeave(content) == Find(content, LEFT_GAME) # NPOS

IsIssued(content) == Find(content, ISSUED_COMMAND) # NPOS

IsBracket(content) ==
    /\ content # <<>>
    /\ content[1] = "["
    /\ FindChar(content, "]", 0) # NPOS
    /\ FindChar(content, ":", 0) # NPOS
    /\ FindChar(content, ":", 0) < FindChar(content, "]", 0)

IsChat(content) ==
    /\ content # <<>>
    /\ content[1] = "<"
    /\ FindChar(content, ">", 0) # NPOS

\* content.substr(1, end_bracket - 1)
BracketContent(content) == Substr(content, 1, FindChar(content, "]", 0) - 1)

\* the players the loop over all_players_ can leave in found_player: the ones
\* found earliest in content; among several at one position the first the
\* unordered_set yields
FoundPlayers(content, players) ==
    LET in_line == {p \in players : Find(content, p) # NPOS}
        first == {p \in in_line :
                     \A q \in in_line : Find(content, p) <= Find(content, q)}
    IN  IF in_line = {} THEN {<<>>} ELSE first

\* the ban() calls a rule loop makes, in order
Calls(hit, rules, player, reasons) ==
    [k \in 1 .. Len(hit) |->
        [player |-> player,
         reason |-> reasons[hit[k]],
         hours |-> rules[hit[k]].ban_hours]]

\* process_log_line(log_line), the part that reads the line alone: the branch
\* taken and the strings cut out of the line
ParseLine(log_line) ==
    LET content == Content(log_line)
        none == [kind |-> "none", content |-> content, name |-> <<>>,
                 info |-> <<>>, text |-> <<>>, match_str |-> <<>>]
    IN  IF ~HasContent(log_line) THEN none
        ELSE IF IsJoinWith(content)
        THEN LET pos == Find(content, JOINED_WITH)
                 name_start == RFind(content, PLAYER_WORD, pos) + Len(PLAYER_WORD)
             IN  [none EXCEPT
                    !.kind = "join_with",
                    !.name = Trim(Substr(content, name_start, pos - name_start)),
                    !.info = PopNewlines(
                                 Trim(SubstrFrom(content, pos + Len(JOINED_WITH))))]
        ELSE IF IsJoinGame(content)
        THEN [none EXCEPT
                !.kind = "join",
                !.name = Trim(Substr(content, 0, Find(content, JOINED_GAME))),
                !.info = VANILLA]
        ELSE IF IsLeave(content)
        THEN [none EXCEPT
                !.kind = "leave",
                !.name = Trim(Substr(content, 0, Find(content, LEFT_GAME)))]
        ELSE IF IsIssued(content)
        THEN LET pos == Find(content, ISSUED_COMMAND)
             IN  [none EXCEPT
                    !.kind = "issued",
                    !.name = Trim(Substr(content, 0, pos)),
                    !.text = PopNewlines(
                                 SubstrFrom(content, pos + Len(ISSUED_COMMAND))),
                    !.match_str = to_lower(remove_spaces(content))]
        ELSE IF IsBracket(content)
        THEN [none EXCEPT
                !.kind = "bracket",
                !.text = PopNewlines(BracketContent(content)),
                !.match_str = to_lower(remove_spaces(BracketContent(content)))]
        ELSE IF IsChat(content)
        THEN LET end == FindChar(content, ">", 0)
             IN  [none EXCEPT
                    !.kind = "chat",
                    !.name = Substr(content, 1, end - 1),
                    !.text = PopNewlines(Trim(SubstrFrom(content, end + 1)))]
        ELSE none

\* online_players_.erase(name), first in a variant that erases nothing
EraseNothing(online, name) == online

Erase(online, name) == [p \in DOMAIN online \ {name} |-> online[p]]

\* all_players_.insert(name), first in a variant that inserts nothing
InsertNothing(players, name) == players

Insert(players, name) == players \cup {name}

\* process_log_line(log_line), the part that reads and changes the lists: the
\* event returned, all_players_ and online_players_ afterwards (join_time left
\* out), and the ban() calls made
ProcessParsed(line, players, online, rules, clock, found_player) ==
    LET same == [players |-> players, online |-> online, calls |-> <<>>]
        event == [type |-> "NONE", player_name |-> line.name,
                  content |-> <<>>, client_info |-> <<>>]
    IN  IF line.kind \in {"join_with", "join"}
        THEN [event |-> [event EXCEPT !.type = "PLAYER_JOIN",
                                      !.client_info = line.info],
              players |-> Insert(players, line.name),
              online |-> Put(online, line.name, line.info),
              calls |-> <<>>]
        ELSE IF line.kind = "leave"
        THEN [event |-> [event EXCEPT !.type = "PLAYER_LEAVE"],
              players |-> players,
              online |-> Erase(online, line.name),
              calls |-> <<>>]
        ELSE IF line.kind = "issued"
        THEN LET hit == RuleLoop(rules, line.match_str, TRUE, 1)
                 reasons == [i \in 1 .. Len(rules) |->
                                CommandReason(line.text, rules[i].ban_hours,
                                              clock)]
             IN  [event |-> [event EXCEPT !.type = "PLAYER_COMMAND",
                                          !.content = <<"/">> \o line.text]]
                 @@ [same EXCEPT
                       !.calls = Calls(hit, rules, line.name, reasons)]
        ELSE IF line.kind = "bracket"
        THEN LET hit == RuleLoop(rules, line.match_str, found_player # <<>>, 1)
                 reasons == [i \in 1 .. Len(rules) |->
                                ActionReason(line.text, rules[i].ban_hours,
                                             clock)]
             IN  [event |-> [event EXCEPT
                               !.type = "PLAYER_COMMAND",
                               !.player_name = found_player,
                               !.content = <<"[">> \o line.text \o <<"]">>]]
                 @@ [same EXCEPT
                       !.calls = Calls(hit, rules, found_player, reasons)]
        ELSE IF line.kind = "chat"
        THEN [event |-> [event EXCEPT !.type = "PLAYER_CHAT",
                                      !.content = line.text]] @@ same
        ELSE [event |-> event] @@ same

process_log_line(log_line, players, online, rules, clock, found_player) ==
    ProcessParsed(ParseLine(log_line), players, online, rules, clock,
                  found_player)

\* PlayerList::ban: the BannedPlayerInfo it stores
BanInfo(player, reason, banned_hours, clock) ==
    [name |-> player,
     reason |-> reason,
     ban_time |-> clock,
     unban_time |-> IF banned_hours = 0 THEN TIME_MAX ELSE clock + banned_hours,
     is_permanent |-> banned_hours = 0]

BAN_WORD ==
    <<"b", "a", "n", " ">>

PARDON_WORD ==
    <<"p", "a", "r", "d", "o", "n", " ">>

\* "ban " + player + " " + reason + "\n"
BanLine(player, reason) == BAN_WORD \o player \o <<" ">> \o reason \o <<NL>>

\* "pardon " + player + "\n"
PardonLine(player) == PARDON_WORD \o player \o <<NL>>

\* a variant of ban() that leaves an existing record alone
BanKeepsExisting(bans, pipe, running, call, clock) ==
    [bans |-> IF call.player \in DOMAIN bans THEN bans
              ELSE Put(bans, call.player,
                       BanInfo(call.player, call.reason, call.hours, clock)),
     pipe |-> SendString(pipe, running,
                         BanLine(call.player, call.reason)).pipe]

\* ban(player, reason, banned_hours): banned_players_ and the child's stdin
\* afterwards
Ban(bans, pipe, running, call, clock) ==
    [bans |-> Put(bans, call.player,
                  BanInfo(call.player, call.reason, call.hours, clock)),
     pipe |-> SendString(pipe, running,
                         BanLine(call.player, call.reason)).pipe]

\* the ban() calls of one process_log_line, one after the other
RECURSIVE BanEach(_, _, _, _, _)
BanEach(calls, bans, pipe, running, clock) ==
    IF calls = <<>> THEN [bans |-> bans, pipe |-> pipe]
    ELSE LET b == Ban(bans, pipe, running, Head(calls), clock)
         IN  BanEach(Tail(calls), b.bans, b.pipe, running, clock)

\* pardon(player)
Pardon(bans, pipe, running, player) ==
    IF player \notin DOMAIN bans
    THEN [ok |-> FALSE, bans |-> bans, pipe |-> pipe]
    ELSE [ok |-> TRUE,
          bans |-> [p \in DOMAIN bans \ {player} |-> bans[p]],
          pipe |-> SendString(pipe, running, PardonLine(player)).pipe]

BAN_FILE_HEADER ==
    <<"#", " ", "n", "a", "m", "e", "|", "r", "e", "a", "s", "o", "n", "|",
      "b", "a", "n", "_", "t", "i", "m", "e", "|", "u", "n", "b", "a", "n",
      "_", "t", "i", "m", "e">>

\* save_files(): one line of banned_file_
BanFileLine(info) ==
    info.name \o <<"|">> \o info.reason \o <<"|">>
    \o time_to_string(info.ban_time, FALSE) \o <<"|">>
    \o time_to_string(info.unban_time, info.is_permanent)

\* save_files(): the lines of banned_file_; the records come in the iteration
\* order of the unordered_map, which is settled when the file is read
SavedBanFile(bans) ==
    {BAN_FILE_HEADER} \cup {BanFileLine(bans[p]) : p \in DOMAIN bans}

\* save_files(): the lines of player_file_
SavedPlayerFile(players) == players

\* load_files(): the names read from player_file_
LoadPlayers(lines) == {Trim(line) : line \in lines} \ {<<>>}

\* load_files(): one line of banned_file_, <<>> when the line is skipped
ParseBanLine(file_line) ==
    LET line == Trim(file_line)
        p1 == FindChar(line, "|", 0)
        p2 == FindChar(line, "|", p1 + 1)
        p3 == FindChar(line, "|", p2 + 1)
        unban_str == SubstrFrom(line, p3 + 1)
    IN  IF line = <<>> \/ line[1] = "#" THEN <<>>
        ELSE IF p1 = NPOS \/ p2 = NPOS \/ p3 = NPOS THEN <<>>
        ELSE <<[name |-> Substr(line, 0, p1),
                reason |-> Substr(line, p1 + 1, p2 - p1 - 1),
                ban_time |-> string_to_time(Substr(line, p2 + 1, p3 - p2 - 1)),
                unban_time |-> string_to_time(unban_str),
                is_permanent |-> unban_str = NEVER_STRING]>>

\* load_files(): banned_players_ after the lines are read into bans
RECURSIVE LoadBans(_, _)
LoadBans(lines, bans) ==
    IF lines = <<>> THEN bans
    ELSE LET got == ParseBanLine(Head(lines))
         IN  LoadBans(Tail(lines),
                      IF got = <<>> THEN bans
                      ELSE Put(bans, got[1].name, got[1]))

\* the forbidden-command lists tried, as load_files() leaves them
KILLALL ==
    <<"k", "i", "l", "l", "a", "l", "l">>

KILL ==
    <<"k", "i", "l", "l">>

RuleLists ==
    {<<[command |-> KILLALL, ban_hours |-> 12],
       [command |-> KILL, ban_hours |-> 0]>>,
     <<[command |-> KILL, ban_hours |-> 0],
       [command |-> KILLALL, ban_hours |-> 12]>>}

\* the lines the child is made to print
LINE_KILL_ALL ==
    <<"[", "i", "]", ":", " ", "B", "o", "b", " ", "i", "s", "s", "u", "e",
      "d", " ", "s", "e", "r", "v", "e", "r", " ", "c", "o", "m", "m", "a",
      "n", "d", ":", " ", "/", "K", "i", "l", "l", " ", "A", "l", "l", NL>>

LINE_KILL_BAR ==
    <<"[", "i", "]", ":", " ", "B", "o", "b", " ", "i", "s", "s", "u", "e",
      "d", " ", "s", "e", "r", "v", "e", "r", " ", "c", "o", "m", "m", "a",
      "n", "d", ":", " ", "/", "k", "i", "l", "l", " ", "|", NL>>

LINE_SAY ==
    <<"[", "i", "]", ":", " ", "A", "l", " ", "i", "s", "s", "u", "e", "d",
      " ", "s", "e", "r", "v", "e", "r", " ", "c", "o", "m", "m", "a", "n",
      "d", ":", " ", "/", "s", "a", "y", NL>>

LINE_ACTION ==
    <<ESC, "[", "3", "1", "m", "[", "i", "]", ":", " ", "[", "A", "l", ":",
      " ", "K", "i", "l", "l", " ", "B", "o", "b", "]", "[", "0", "m", NL>>

LINE_JOIN ==
    <<"[", "i", "]", ":", " ", "B", "o", "b", " ", "j", "o", "i", "n", "e",
      "d", " ", "t", "h", "e", " ", "g", "a", "m", "e", NL>>

LINE_JOIN_WITH ==
    <<"[", "i", "]", ":", " ", "P", "l", "a", "y", "e", "r", " ", "A", "l",
      " ", "j", "o", "i", "n", "e", "d", " ", "w", "i", "t", "h", " ", "f",
      "a", "b", "r", "i", "c", NL>>

LINE_LEAVE ==
    <<"[", "i", "]", ":", " ", "B", "o", "b", " ", "l", "e", "f", "t", " ",
      "t", "h", "e", " ", "g", "a", "m", "e", NL>>

LINE_CHAT ==
    <<"[", "i", "]", ":", " ", "<", "A", "l", ">", " ", "h", "i", NL>>

LINE_DONE ==
    <<"D", "o", "n", "e", NL>>

LogLines ==
    {LINE_KILL_ALL, LINE_KILL_BAR, LINE_SAY, LINE_ACTION, LINE_JOIN,
     LINE_JOIN_WITH, LINE_LEAVE, LINE_CHAT, LINE_DONE}

\* ParseLine, tabulated for the lines tried
Parsed == [line \in LogLines |-> ParseLine(line)]

\* PlayerList(...) with the given forbidden-command lists and no player or
\* ban file yet: load_files() creates the files empty
BanInitWith(rule_lists) ==
    /\ all_players_ = {}
    /\ online_players_ = <<>>
    /\ banned_players_ = <<>>
    /\ forbidden_commands_ \in rule_lists
    /\ player_file = {}
    /\ banned_file = {}
    /\ sw_pc = "wait"
    /\ to_unban = <<>>
    /\ pending_line = <<>>
    /\ granted = <<>>
    /\ n_bans = 0
    /\ n_restarts = 0

BanInit == BanInitWith(RuleLists)

BanIdle == BanInitWith({<<>>})

\* log_reader_thread_func: the child is running and a line is read from it
LogRead(line) ==
    /\ prog_running
    /\ pending_line = <<>>
    /\ n_bans < MaxBans
    /\ pending_line' = line
    /\ UNCHANGED <<all_players_, online_players_, banned_players_,
                   forbidden_commands_, player_file, banned_file, sw_pc,
                   to_unban, granted, n_bans, n_restarts>>
    /\ UNCHANGED <<envVars, bufVars, reqVars, progVars, supVars, extVars>>

\* the hours of the last ban() call for each player
Granted(old, calls) ==
    [p \in DOMAIN old \cup {calls[k].player : k \in 1 .. Len(calls)} |->
        IF \E k \in 1 .. Len(calls) : calls[k].player = p
        THEN calls[CHOOSE k \in 1 .. Len(calls) :
                      /\ calls[k].player = p
                      /\ \A j \in k + 1 .. Len(calls) : calls[j].player # p].hours
        ELSE old[p]]

\* log_reader_thread_func: process_log_line(line) with the ban() it calls,
\* save_files() included
LogProcess ==
    /\ pending_line # <<>>
    /\ \E found \in FoundPlayers(Parsed[pending_line].content, all_players_) :
          LET r == ProcessParsed(Parsed[pending_line], all_players_,
                                 online_players_, forbidden_commands_, now,
                                 found)
              b == BanEach(r.calls, banned_players_, stdin_pipe, prog_running,
                           now)
          IN  /\ all_players_' = r.players
              /\ online_players_' = r.online
              /\ banned_players_' = b.bans
              /\ stdin_pipe' = b.pipe
              /\ IF r.calls = <<>>
                 THEN UNCHANGED <<player_file, banned_file>>
                 ELSE /\ player_file' = SavedPlayerFile(all_players_')
                      /\ banned_file' = SavedBanFile(banned_players_')
              /\ granted' = Granted(granted, r.calls)
              /\ n_bans' = n_bans + Len(r.calls)
              /\ last_op' = [op |-> "log", line |-> pending_line,
                             event |-> r.event, calls |-> r.calls,
                             running |-> prog_running]
    /\ pending_line' = <<>>
    /\ UNCHANGED <<forbidden_commands_, sw_pc, to_unban, n_restarts>>
    /\ UNCHANGED <<now, prog_running, sm_running, bufVars, reqVars, progVars, supVars, extVars>>

\* ban_checker_thread_func, under mutex_: the timed bans that are over
Due(bans, clock) ==
    {p \in DOMAIN bans : ~bans[p].is_permanent /\ clock >= bans[p].unban_time}

SweepCollect ==
    /\ sw_pc = "wait"
    /\ to_unban' \in Orderings(Due(banned_players_, now))
    /\ sw_pc' = IF to_unban' = <<>> THEN "wait" ELSE "pardon"
    /\ last_op' = [op |-> "sweep"]
    /\ UNCHANGED <<all_players_, online_players_, banned_players_,
                   forbidden_commands_, player_file, banned_file,
                   pending_line, granted, n_bans, n_restarts>>
    /\ UNCHANGED <<now, prog_running, sm_running, stdin_pipe, bufVars, reqVars, progVars, supVars, extVars>>

\* ban_checker_thread_func: pardon(player) for the next name of to_unban
SweepPardon ==
    /\ sw_pc = "pardon"
    /\ LET player == Head(to_unban)
           r == Pardon(banned_players_, stdin_pipe, prog_running, player)
       IN  /\ banned_players_' = r.bans
           /\ stdin_pipe' = r.pipe
           /\ IF r.ok
              THEN /\ player_file' = SavedPlayerFile(all_players_)
                   /\ banned_file' = SavedBanFile(banned_players_')
              ELSE UNCHANGED <<player_file, banned_file>>
           /\ last_op' = [op |-> "pardon", by |-> "sweeper", player |-> player,
                          ok |-> r.ok, running |-> prog_running]
    /\ to_unban' = Tail(to_unban)
    /\ sw_pc' = IF to_unban' = <<>> THEN "wait" ELSE "pardon"
    /\ UNCHANGED <<all_players_, online_players_, forbidden_commands_,
                   pending_line, granted, n_bans, n_restarts>>
    /\ UNCHANGED <<now, prog_running, sm_running, bufVars, reqVars, progVars, supVars, extVars>>

\* the names pardon() is called with
PardonNames == {<<"B", "o", "b">>, <<"A", "l">>}

\* pardon(player) called through the public interface of PlayerList
PardonCall(player) ==
    /\ LET r == Pardon(banned_players_, stdin_pipe, prog_running, player)
       IN  /\ banned_players_' = r.bans
           /\ stdin_pipe' = r.pipe
           /\ IF r.ok
              THEN /\ player_file' = SavedPlayerFile(all_players_)
                   /\ banned_file' = SavedBanFile(banned_players_')
              ELSE UNCHANGED <<player_file, banned_file>>
           /\ last_op' = [op |-> "pardon", by |-> "caller", player |-> player,
                          ok |-> r.ok, running |-> prog_running]
    /\ UNCHANGED <<all_players_, online_players_, forbidden_commands_, sw_pc,
                   to_unban, pending_line, granted, n_bans, n_restarts>>
    /\ UNCHANGED <<now, prog_running, sm_running, bufVars, reqVars, progVars, supVars, extVars>>

\* the process ends and is started again: ~ServerManager stops the child and
\* the log thread, ~PlayerList joins the sweeper, clears online_players_ and
\* calls save_files(); the next PlayerList(...) calls load_files()
Restart ==
    /\ sw_pc = "wait"
    /\ pending_line = <<>>
    /\ n_restarts < MaxRestarts
    /\ player_file' = SavedPlayerFile(all_players_)
    /\ banned_file' = SavedBanFile(banned_players_)
    /\ all_players_' = LoadPlayers(player_file')
    /\ \E lines \in Orderings(banned_file') :
          banned_players_' = LoadBans(lines, <<>>)
    /\ online_players_' = <<>>
    /\ prog_running' = FALSE
    /\ sm_running' = FALSE
    /\ stdin_pipe' = <<>>
    /\ n_restarts' = n_restarts + 1
    /\ last_op' = [op |-> "restart"]
    /\ UNCHANGED <<forbidden_commands_, sw_pc, to_unban, pending_line, granted,
                   n_bans>>
    /\ UNCHANGED <<now, bufVars, reqVars, progVars, supVars, extVars>>

BanNext ==
    \/ \E line \in LogLines : LogRead(line)
    \/ LogProcess
    \/ SweepCollect
    \/ SweepPardon
    \/ \E player \in PardonNames : PardonCall(player)
    \/ Restart
    \/ AdvanceClock
    \/ SMStart
    \/ ChildExit

(***************************************************************************)
(* Claims about dl::PlayerList                                             *)
(***************************************************************************)
Least(S) == CHOOSE i \in S : \A j \in S : i <= j

\* the rules whose key occurs in the match string of a parsed line
MatchingRules(rules, line) ==
    {i \in 1 .. Len(rules) : Contains(line.match_str, Keyword(rules[i]))}

\* the step is process_log_line on a line it classifies as a Command
CommandStep ==
    /\ pending_line # <<>>
    /\ last_op'.op = "log"
    /\ last_op'.event.type = "PLAYER_COMMAND"

\* the ban() call c was made in this step: its record is stored
Invoked(c) ==
    banned_players_'[c.player] = BanInfo(c.player, c.reason, c.hours, now)

C9_BanRecordTimes ==
    \A p \in DOMAIN banned_players_ :
        LET r == banned_players_[p]
        IN  /\ r.is_permanent => r.unban_time = TIME_MAX
            /\ ~r.is_permanent =>
                  /\ p \in DOMAIN granted
                  /\ r.unban_time = r.ban_time + granted[p]
            /\ p \in DOMAIN granted => (r.is_permanent <=> granted[p] = 0)

\* the lines of the pipe that are a ban command for the player
BanCommands(pipe, player) ==
    {i \in 1 .. Len(pipe) :
        Substr(pipe[i], 0, Len(BAN_WORD) + Len(player) + 1)
            = BAN_WORD \o player \o <<" ">>}

\* the step is a ban() of the player the operation before it banned
SecondBanStep ==
    /\ pending_line # <<>>
    /\ last_op'.op = "log"
    /\ last_op'.calls # <<>>
    /\ last_op.op = "log"
    /\ last_op.calls # <<>>
    /\ last_op.calls[1].player = last_op'.calls[1].player

\* the second ban() leaves one record for the name, with the reason and the
\* times of that call, and the other records as they were
SecondBanRecord ==
    LET c == last_op'.calls[1]
    IN  /\ DOMAIN banned_players_' = DOMAIN banned_players_
        /\ banned_players_'[c.player] = BanInfo(c.player, c.reason, c.hours, now)
        /\ \A p \in DOMAIN banned_players_ \ {c.player} :
              banned_players_'[p] = banned_players_[p]

Without(bans, player) == [p \in DOMAIN bans \ {player} |-> bans[p]]

\* the step is a pardon() call (reading a log line leaves last_op alone)
PardonStep == last_op'.op = "pardon" /\ pending_line' = pending_line

\* C11: pardon(name) for a name with no record returns false, writes nothing
\* to the child's stdin, leaves the files and the ban map as they were;
\* pardon(name) for a banned name removes exactly that record, writes
\* "pardon <name>\n" to the child's stdin and returns true.
C11_PardonEffect ==
    [][PardonStep =>
          LET player == last_op'.player
          IN  IF player \notin DOMAIN banned_players_
              THEN /\ ~last_op'.ok
                   /\ stdin_pipe' = stdin_pipe
                   /\ player_file' = player_file
                   /\ banned_file' = banned_file
                   /\ banned_players_' = banned_players_
              ELSE /\ last_op'.ok
                   /\ banned_players_' = Without(banned_players_, player)
                   /\ stdin_pipe' = Append(stdin_pipe, PardonLine(player))]_vars

\* C12: the sweeper never removes a record without the "pardon <name>\n" line
\* for it being delivered to the child's stdin.
C12_SweeperDeliversPardon ==
    [][(last_op'.op = "pardon" /\ last_op'.by = "sweeper"
           /\ last_op'.player \in DOMAIN banned_players_
           /\ last_op'.player \notin DOMAIN banned_players_')
          => /\ stdin_pipe' # stdin_pipe
             /\ stdin_pipe'[Len(stdin_pipe')] = PardonLine(last_op'.player)]_vars

\* the step saves the files and loads them into a new, empty registry
RestartStep == last_op'.op = "restart" /\ n_restarts' = n_restarts + 1

\* C13: for every ban map made by ban(), saving the ban file and loading it
\* into an empty registry gives the same names with the same reason, ban
\* time, unban time and permanent flag.
C13_BanFileRoundTrip ==
    [][RestartStep => banned_players_' = banned_players_]_vars

\* the sweeper's pardon() removed a record; pardon() called from outside did
SweeperRemoves(p) ==
    /\ last_op'.op = "pardon"
    /\ pending_line' = pending_line
    /\ last_op'.by = "sweeper"
    /\ p \in DOMAIN banned_players_
    /\ p \notin DOMAIN banned_players_'

\* C34: under every interleaving of ban() with a pass of the sweeper, the
\* sweeper removes only records that are not permanent and are due at the
\* moment of the removal: a record that a ban() wrote over an expired one
\* after the sweeper collected the name is left by that pass, and a permanent
\* ban goes only by an explicit pardon().
C34_SweeperRemovesOnlyDue ==
    [][\A p \in DOMAIN banned_players_ :
          SweeperRemoves(p) =>
             /\ ~banned_players_[p].is_permanent
             /\ now >= banned_players_[p].unban_time]_vars

\* C40: in every state every online player is a known player: the names in
\* online_players_ are in all_players_, whatever Join and Leave lines were
\* processed and however often the registry was shut down and loaded again.
C40_OnlineAreKnown == DOMAIN online_players_ \subseteq all_players_

\* after a shutdown and a load from the files a player is online beside a
\* known player who is not
C40_Witness ==
    /\ n_restarts > 0
    /\ DOMAIN online_players_ # {}
    /\ all_players_ \ DOMAIN online_players_ # {}
    /\ last_op.op = "log"
    /\ last_op.event.type = "PLAYER_JOIN"

(***************************************************************************)
(* dl::CommandRequestManager: the data file                                *)
(***************************************************************************)
\* "=== REQUEST ==="
REQUEST_MARK ==
    <<"=", "=", "=", " ", "R", "E", "Q", "U", "E", "S", "T", " ", "=", "=",
      "=">>

\* "=== END ==="
END_MARK ==
    <<"=", "=", "=", " ", "E", "N", "D", " ", "=", "=", "=">>

\* "id"
KEY_ID ==
    <<"i", "d">>

\* "applicant"
KEY_APPLICANT ==
    <<"a", "p", "p", "l", "i", "c", "a", "n", "t">>

\* "command"
KEY_COMMAND ==
    <<"c", "o", "m", "m", "a", "n", "d">>

\* "reason"
KEY_REASON ==
    <<"r", "e", "a", "s", "o", "n">>

\* "image"
KEY_IMAGE ==
    <<"i", "m", "a", "g", "e">>

\* "created"
KEY_CREATED ==
    <<"c", "r", "e", "a", "t", "e", "d">>

\* "executed"
KEY_EXECUTED ==
    <<"e", "x", "e", "c", "u", "t", "e", "d">>

\* "executed_at"
KEY_EXECUTED_AT ==
    <<"e", "x", "e", "c", "u", "t", "e", "d", "_", "a", "t">>

\* "votes"
KEY_VOTES ==
    <<"v", "o", "t", "e", "s">>

\* the text of a generated id, which holds hex digits and '-' only: one token
IdText(id) == <<ToString(id)>>

\* the text of image_path: id + image_ext, or empty
ImageText(image_path) ==
    IF image_path = <<>> THEN <<>>
    ELSE IdText(image_path[1]) \o <<image_path[2]>>

\* time_to_string of the request manager; a time string is the three decimal
\* digits of the hour count in place of "%Y-%m-%d %H:%M:%S"
cr_time_to_string(tp) ==
    <<DigitChars[((tp \div 100) % 10) + 1],
      DigitChars[((tp \div 10) % 10) + 1],
      DigitChars[(tp % 10) + 1]>>

\* string_to_time of the request manager: now() when the parse fails
cr_string_to_time(s, clock) ==
    IF Len(s) >= 3 /\ \A i \in 1 .. 3 : s[i] \in Digits
    THEN 100 * DigitValue(s[1]) + 10 * DigitValue(s[2]) + DigitValue(s[3])
    ELSE clock

\* the ips of a request, written with "," between them
RECURSIVE JoinIps(_)
JoinIps(ips) ==
    IF ips = <<>> THEN <<>>
    ELSE IF Len(ips) = 1 THEN <<ips[1]>>
    ELSE <<ips[1], ",">> \o JoinIps(Tail(ips))

\* save_data(): the lines written for one request
SaveBlock(req, ip_order) ==
    REQUEST_MARK \o <<NL>>
    \o KEY_ID \o <<"|">> \o IdText(req.id) \o <<NL>>
    \o KEY_APPLICANT \o <<"|">> \o req.applicant \o <<NL>>
    \o KEY_COMMAND \o <<"|">> \o req.command \o <<NL>>
    \o KEY_REASON \o <<"|">> \o req.reason \o <<NL>>
    \o KEY_IMAGE \o <<"|">> \o ImageText(req.image_path) \o <<NL>>
    \o KEY_CREATED \o <<"|">> \o cr_time_to_string(req.created_at) \o <<NL>>
    \o KEY_EXECUTED \o <<"|">> \o <<IF req.executed THEN "1" ELSE "0">> \o <<NL>>
    \o KEY_EXECUTED_AT \o <<"|">>
       \o (IF req.executed THEN cr_time_to_string(req.executed_at) ELSE <<>>)
       \o <<NL>>
    \o KEY_VOTES \o <<"|">>
       \o JoinIps(SelectSeq(ip_order, LAMBDA ip : ip \in req.voted_ips))
       \o <<NL>>
    \o END_MARK \o <<NL>>

\* save_data(): the text of the file, the requests in the order the map
\* iterates them and the ips in the order their set iterates them
RECURSIVE SaveText(_, _, _)
SaveText(reqs, order, ip_order) ==
    IF order = <<>> THEN <<>>
    ELSE SaveBlock(reqs[Head(order)], ip_order)
         \o SaveText(reqs, Tail(order), ip_order)

\* std::getline over the text: its lines, without their '\n'
RECURSIVE GetLines(_)
GetLines(text) ==
    IF text = <<>> THEN <<>>
    ELSE LET nl == FindChar(text, NL, 0)
         IN  IF nl = NPOS THEN <<text>>
             ELSE <<Substr(text, 0, nl)>> \o GetLines(SubstrFrom(text, nl + 1))

\* RequestInfo()
EmptyRequest ==
    [id |-> <<>>, applicant |-> <<>>, command |-> <<>>, reason |-> <<>>,
     image_path |-> <<>>, created_at |-> EPOCH, executed |-> FALSE,
     executed_at |-> EPOCH, voted_ips |-> {}]

\* load_data(): the ips of a "votes" value, split at ',' and trimmed
RECURSIVE ParseVotes(_)
ParseVotes(value) ==
    IF value = <<>> THEN {}
    ELSE LET comma == FindChar(value, ",", 0)
             ip == Trim(IF comma = NPOS THEN value ELSE Substr(value, 0, comma))
             rest == IF comma = NPOS THEN <<>> ELSE SubstrFrom(value, comma + 1)
         IN  (IF ip = <<>> THEN {} ELSE {ip[1]}) \cup ParseVotes(rest)

\* load_data(): current after a key|value line
SetField(current, key, value, clock) ==
    IF key = KEY_ID THEN [current EXCEPT !.id = value]
    ELSE IF key = KEY_APPLICANT THEN [current EXCEPT !.applicant = value]
    ELSE IF key = KEY_COMMAND THEN [current EXCEPT !.command = value]
    ELSE IF key = KEY_REASON THEN [current EXCEPT !.reason = value]
    ELSE IF key = KEY_IMAGE THEN [current EXCEPT !.image_path = value]
    ELSE IF key = KEY_CREATED
    THEN [current EXCEPT !.created_at = cr_string_to_time(value, clock)]
    ELSE IF key = KEY_EXECUTED
    THEN [current EXCEPT !.executed = (value = <<"1">>)]
    ELSE IF key = KEY_EXECUTED_AT
    THEN IF value # <<>>
         THEN [current EXCEPT !.executed_at = cr_string_to_time(value, clock)]
         ELSE current
    ELSE IF key = KEY_VOTES
    THEN [current EXCEPT !.voted_ips = @ \cup ParseVotes(value)]
    ELSE current

\* load_data(): the loop over the lines of the file
RECURSIVE LoadLines(_, _, _, _, _)
LoadLines(lines, reqs, current, in_request, clock) ==
    IF lines = <<>> THEN reqs
    ELSE LET line == Trim(Head(lines))
             sep == FindChar(line, "|", 0)
         IN  IF line = REQUEST_MARK
             THEN LoadLines(Tail(lines), reqs, EmptyRequest, TRUE, clock)
             ELSE IF line = END_MARK
             THEN LoadLines(Tail(lines),
                            IF in_request /\ current.id # <<>>
                            THEN Put(reqs, current.id, current) ELSE reqs,
                            current, FALSE, clock)
             ELSE IF ~in_request \/ sep = NPOS
             THEN LoadLines(Tail(lines), reqs, current, in_request, clock)
             ELSE LoadLines(Tail(lines), reqs,
                            SetField(current, Substr(line, 0, sep),
                                     SubstrFrom(line, sep + 1), clock),
                            in_request, clock)

\* load_data() on the text of the file: requests_ afterwards, by id text
LoadData(text, clock) ==
    LoadLines(GetLines(text), <<>>, EmptyRequest, FALSE, clock)

\* the loaded request holds what the request held
SameRequest(loaded, req) ==
    /\ loaded.id = IdText(req.id)
    /\ loaded.applicant = req.applicant
    /\ loaded.command = req.command
    /\ loaded.reason = req.reason
    /\ loaded.image_path = ImageText(req.image_path)
    /\ loaded.created_at = req.created_at
    /\ loaded.executed = req.executed
    /\ req.executed => loaded.executed_at = req.executed_at
    /\ loaded.voted_ips = req.voted_ips

\* C14: for every request map made by create_request, vote and executor
\* ticks, saving the request file and loading it gives a map with the same
\* ids and, for each id, the same applicant, command, reason, image, created
\* time, executed flag, executed time when executed, and voted ips.
C14_RequestFileRoundTrip ==
    \A order \in Orderings(DOMAIN requests_), ip_order \in Orderings(IPs) :
        LET loaded == LoadData(SaveText(requests_, order, ip_order), now)
        IN  /\ DOMAIN loaded = {IdText(id) : id \in DOMAIN requests_}
            /\ \A id \in DOMAIN requests_ :
                  SameRequest(loaded[IdText(id)], requests_[id])

(***************************************************************************)
(* Claims about Buffer::read_all                                           *)
(***************************************************************************)
\* C20: a call of read_all() on a buffer with unread bytes returns, gives
\* exactly the unread remainder and leaves the buffer empty with cursor 0; on
\* a buffer with no unread bytes it returns the empty string.
C20_ReadAllReturnsRest ==
    [][buf_op' = "read_all" /\ buf_lock = "free" =>
          /\ buf_lock' = "free"
          /\ buf_last' = Unread
          /\ Unread # <<>> => buffer_' = <<>> /\ buffer_ptr_' = 0]_vars

(***************************************************************************)
(* dl::Program: the child, the reader thread, send_string                  *)
(***************************************************************************)
\* int exit_code_ = -1
INITIAL_EXIT_CODE == 0 - 1

\* the wait statuses tried: exit(0), exit(3), killed by signal 9
ExitStatuses ==
    {[kind |-> "exited", n |-> 0], [kind |-> "exited", n |-> 3],
     [kind |-> "signaled", n |-> 9]}

NoStatus == [kind |-> "none", n |-> 0]

\* the data send_string is called with
SendData == {<<"a", NL>>, <<"b", "c", NL>>}

IdleSend ==
    [pc |-> "idle", data |-> <<>>, total_written |-> 0, ret |-> FALSE,
     base |-> 0, writes |-> 0, eintr |-> 0]

\* Program::Program(command): nothing is started
ProgInit ==
    /\ child = "none"
    /\ wstatus = NoStatus
    /\ exit_code_ = INITIAL_EXIT_CODE
    /\ snd = IdleSend
    /\ snd2 = IdleSend
    /\ stdin_bytes = <<>>
    /\ n_runs = 0
    /\ n_sends = 0

\* Program::run(); failed stands for pipe() or fork() returning -1
ProgramRun(failed) ==
    /\ n_runs < MaxRuns
    /\ IF prog_running \/ failed
       THEN /\ last_op' = [op |-> "run", ok |-> FALSE, was_running |-> prog_running]
            /\ UNCHANGED <<prog_running, child, n_runs>>
       ELSE /\ prog_running' = TRUE
            /\ child' = "alive"
            /\ n_runs' = n_runs + 1
            /\ last_op' = [op |-> "run", ok |-> TRUE, was_running |-> FALSE]
    /\ UNCHANGED <<wstatus, exit_code_, snd, snd2, stdin_bytes, n_sends>>
    /\ UNCHANGED <<now, sm_running, stdin_pipe, bufVars, reqVars, banVars, supVars, extVars>>

\* the child process ends, by exit or by a signal
ChildTerminates(status) ==
    /\ child = "alive"
    /\ child' = "exited"
    /\ wstatus' = status
    /\ last_op' = [op |-> "terminate"]
    /\ UNCHANGED <<exit_code_, snd, snd2, stdin_bytes, n_runs, n_sends>>
    /\ UNCHANGED <<now, prog_running, sm_running, stdin_pipe, bufVars, reqVars,
                   banVars, supVars, extVars>>

\* reader_thread_func: the exit code for a wait status
ExitCodeOf(status, old) ==
    IF status.kind = "exited" THEN status.n
    ELSE IF status.kind = "signaled" THEN 0 - status.n
    ELSE old

\* reader_thread_func: waitpid(child_pid_, &status, WNOHANG) returns the child
ReaderReap ==
    /\ child = "exited"
    /\ prog_running
    /\ exit_code_' = ExitCodeOf(wstatus, exit_code_)
    /\ prog_running' = FALSE
    /\ child' = "none"
    /\ last_op' = [op |-> "reap", status |-> wstatus]
    /\ UNCHANGED <<wstatus, snd, snd2, stdin_bytes, n_runs, n_sends>>
    /\ UNCHANGED <<now, sm_running, stdin_pipe, bufVars, reqVars, banVars, supVars, extVars>>

\* send_string(data): the test of running_ and the locals of the loop
SendBegin(data) ==
    /\ snd.pc = "idle"
    /\ n_sends < MaxSends
    /\ n_sends' = n_sends + 1
    /\ snd' = [IdleSend EXCEPT !.pc = IF ~prog_running \/ data = <<>>
                                     THEN "done" ELSE "loop",
                               !.ret = prog_running,
                               !.data = data,
                               !.base = Len(stdin_bytes)]
    /\ last_op' = [op |-> "send", running |-> prog_running]
    /\ UNCHANGED <<snd2, child, wstatus, exit_code_, stdin_bytes, n_runs>>
    /\ UNCHANGED <<now, prog_running, sm_running, stdin_pipe, bufVars, reqVars,
                   banVars, supVars, extVars>>

\* a variant of the write that starts at the front of data again
NextChunkFromStart(data, total_written, count) == SubSeq(data, 1, count)

\* write(fd, data.c_str() + total_written, ...) returning count: the bytes
\* it put on the pipe
NextChunk(data, total_written, count) ==
    SubSeq(data, total_written + 1, total_written + count)

\* send_string: write() returns count > 0; the pipe has a reader only while
\* the child lives
SendWrite(count) ==
    /\ snd.pc = "loop"
    /\ child = "alive"
    /\ count \in 1 .. Len(snd.data) - snd.total_written
    /\ stdin_bytes' =
          stdin_bytes \o NextChunk(snd.data, snd.total_written, count)
    /\ snd' = [snd EXCEPT
                 !.total_written = @ + count,
                 !.writes = @ + 1,
                 !.pc = IF snd.total_written + count < Len(snd.data)
                        THEN "loop" ELSE "done",
                 !.ret = TRUE]
    /\ last_op' = [op |-> "write"]
    /\ UNCHANGED <<snd2, child, wstatus, exit_code_, n_runs, n_sends>>
    /\ UNCHANGED <<now, prog_running, sm_running, stdin_pipe, bufVars, reqVars,
                   banVars, supVars, extVars>>

\* send_string: write() returns -1 with errno EINTR: continue
SendEintr ==
    /\ snd.pc = "loop"
    /\ snd.eintr < MaxEintr
    /\ snd' = [snd EXCEPT !.eintr = @ + 1]
    /\ last_op' = [op |-> "eintr"]
    /\ UNCHANGED <<snd2, child, wstatus, exit_code_, stdin_bytes, n_runs, n_sends>>
    /\ UNCHANGED <<now, prog_running, sm_running, stdin_pipe, bufVars, reqVars,
                   banVars, supVars, extVars>>

\* send_string: write() returns -1 with another errno (EPIPE once the child
\* is gone): return false
SendError ==
    /\ snd.pc = "loop"
    /\ snd' = [snd EXCEPT !.pc = "done", !.ret = FALSE]
    /\ last_op' = [op |-> "write_error"]
    /\ UNCHANGED <<snd2, child, wstatus, exit_code_, stdin_bytes, n_runs, n_sends>>
    /\ UNCHANGED <<now, prog_running, sm_running, stdin_pipe, bufVars, reqVars,
                   banVars, supVars, extVars>>

\* the caller has the result of send_string
SendReturn ==
    /\ snd.pc = "done"
    /\ snd' = [snd EXCEPT !.pc = "idle"]
    /\ last_op' = [op |-> "sent", ret |-> snd.ret]
    /\ UNCHANGED <<snd2, child, wstatus, exit_code_, stdin_bytes, n_runs, n_sends>>
    /\ UNCHANGED <<now, prog_running, sm_running, stdin_pipe, bufVars, reqVars,
                   banVars, supVars, extVars>>

ProgramNext ==
    \/ \E failed \in BOOLEAN : ProgramRun(failed)
    \/ \E status \in ExitStatuses : ChildTerminates(status)
    \/ ReaderReap
    \/ \E data \in SendData : SendBegin(data)
    \/ \E count \in 1 .. 3 : SendWrite(count)
    \/ SendEintr
    \/ SendError
    \/ SendReturn

\* send_string(data) called on a second thread while the first call may be
\* in its loop: the test of running_ and the locals of the loop
OtherSendBegin(data) ==
    /\ snd2.pc = "idle"
    /\ n_sends < MaxSends
    /\ n_sends' = n_sends + 1
    /\ snd2' = [IdleSend EXCEPT !.pc = IF ~prog_running \/ data = <<>>
                                      THEN "done" ELSE "loop",
                                !.ret = prog_running,
                                !.data = data,
                                !.base = Len(stdin_bytes)]
    /\ last_op' = [op |-> "send2", running |-> prog_running]
    /\ UNCHANGED <<snd, child, wstatus, exit_code_, stdin_bytes, n_runs>>
    /\ UNCHANGED <<now, prog_running, sm_running, stdin_pipe, bufVars, reqVars,
                   banVars, supVars, extVars>>

\* the second call: write() returns count > 0, or -1 with an errno other
\* than EINTR (count 0)
OtherSendWrite(count) ==
    /\ snd2.pc = "loop"
    /\ count \in 0 .. Len(snd2.data) - snd2.total_written
    /\ count > 0 => child = "alive"
    /\ stdin_bytes' =
          stdin_bytes \o NextChunk(snd2.data, snd2.total_written, count)
    /\ snd2' = IF count = 0
               THEN [snd2 EXCEPT !.pc = "done", !.ret = FALSE]
               ELSE [snd2 EXCEPT
                       !.total_written = @ + count,
                       !.writes = @ + 1,
                       !.pc = IF snd2.total_written + count < Len(snd2.data)
                              THEN "loop" ELSE "done",
                       !.ret = TRUE]
    /\ last_op' = [op |-> "write2"]
    /\ UNCHANGED <<snd, child, wstatus, exit_code_, n_runs, n_sends>>
    /\ UNCHANGED <<now, prog_running, sm_running, stdin_pipe, bufVars, reqVars,
                   banVars, supVars, extVars>>

\* the second caller has the result of send_string
OtherSendReturn ==
    /\ snd2.pc = "done"
    /\ snd2' = [snd2 EXCEPT !.pc = "idle"]
    /\ last_op' = [op |-> "sent2", ret |-> snd2.ret]
    /\ UNCHANGED <<snd, child, wstatus, exit_code_, stdin_bytes, n_runs,
                   n_sends>>
    /\ UNCHANGED <<now, prog_running, sm_running, stdin_pipe, bufVars, reqVars,
                   banVars, supVars, extVars>>

\* two threads in send_string on the same Program
SendersNext ==
    \/ ProgramRun(FALSE)
    \/ \E data \in SendData : SendBegin(data)
    \/ \E count \in 1 .. 3 : SendWrite(count)
    \/ SendError
    \/ SendReturn
    \/ \E data \in SendData : OtherSendBegin(data)
    \/ \E count \in 0 .. 3 : OtherSendWrite(count)
    \/ OtherSendReturn

(***************************************************************************)
(* Claims about dl::Program                                                *)
(***************************************************************************)
\* C18: get_exit_code() is -1 in every state in which the child is running,
\* also after a second run() that follows an earlier exit; once the reader
\* has seen the exit it is the plain exit status after a normal exit and the
\* negated signal number after a signalled one.
C18_ExitCode ==
    /\ prog_running => exit_code_ = INITIAL_EXIT_CODE
    /\ last_op.op = "reap" =>
          exit_code_ = IF last_op.status.kind = "exited"
                       THEN last_op.status.n ELSE 0 - last_op.status.n

\* the step on which send_string returns
SendReturns == snd.pc # "done" /\ snd'.pc = "done"

\* the bytes the call has put on the pipe
Sent(bytes, call) == SubSeq(bytes, call.base + 1, Len(bytes))

\* C19: send_string returns false and writes nothing whenever it is called
\* while the child is not running; when it returns true, all bytes of its
\* argument were written to the child's stdin, in order; a write interrupted
\* by a signal is tried again and does not end the call.
C19_SendAllOrNothing ==
    [][/\ SendReturns =>
            /\ (snd.pc = "idle" /\ ~prog_running) =>
                  (~snd'.ret /\ stdin_bytes' = stdin_bytes)
            /\ snd'.ret => Sent(stdin_bytes', snd') = snd'.data
       /\ (snd.pc = "loop" /\ snd'.eintr # snd.eintr) =>
            /\ snd'.pc = "loop"
            /\ snd'.total_written = snd.total_written
            /\ stdin_bytes' = stdin_bytes]_vars

\* a call returned true after a short write, an interrupted write and a
\* second write, and its data is the end of what the pipe received
C19_Witness ==
    /\ snd.pc = "done"
    /\ snd.ret
    /\ snd.writes >= 2
    /\ snd.eintr >= 1
    /\ Sent(stdin_bytes, snd) = snd.data
    /\ snd.base > 0

\* what thread's call s has written so far is the end of what is on stdin
WrittenIsLast(s) ==
    LET n == Len(stdin_bytes)
    IN  /\ n >= s.total_written
        /\ SubSeq(stdin_bytes, n - s.total_written + 1, n)
              = SubSeq(s.data, 1, s.total_written)

\* C38: the bytes of one send_string call are never interleaved with those
\* of another: while a call has written a part of its line and not yet the
\* rest, no other thread's bytes are put on the child's stdin after that part.
C38_SendsNotInterleaved ==
    \A s \in {snd, snd2} :
        s.pc = "loop" /\ s.total_written > 0 => WrittenIsLast(s)

(***************************************************************************)
(* dl::ServerManager: the log thread, the audit ring and main()'s wait     *)
(***************************************************************************)
\* static constexpr size_t MAX_LOG_CACHE = 1000
LOG_CACHE_LIMIT == 1000

\* the lines the child writes to its stdout
ChildLines == {LINE_JOIN, LINE_KILL_ALL, LINE_LEAVE, LINE_CHAT, LINE_DONE}

\* ServerManager(program, ops_file, player_list): nothing is started
SupInitWith(limits) ==
    /\ stop_log_thread_ = FALSE
    /\ log_pc = "none"
    /\ main_pc = "init"
    /\ written = <<>>
    /\ n_read = 0
    /\ log_cache_ = <<>>
    /\ MAX_LOG_CACHE \in limits

SupInit == SupInitWith(1 .. MaxLogCache)

SupIdle == SupInitWith({LOG_CACHE_LIMIT})

\* main(): server_manager.start() runs the child and starts the log thread;
\* main() then waits in its loop
SupStart ==
    /\ main_pc = "init"
    /\ ~sm_running
    /\ ~prog_running
    /\ prog_running' = TRUE
    /\ child' = "alive"
    /\ n_runs' = n_runs + 1
    /\ sm_running' = TRUE
    /\ stop_log_thread_' = FALSE
    /\ log_pc' = "loop"
    /\ main_pc' = "wait"
    /\ last_op' = [op |-> "start"]
    /\ UNCHANGED <<wstatus, exit_code_, snd, snd2, stdin_bytes, n_sends>>
    /\ UNCHANGED <<written, n_read, log_cache_, MAX_LOG_CACHE>>
    /\ UNCHANGED <<now, stdin_pipe, bufVars, reqVars, banVars, extVars>>

\* the child writes a line to its stdout; the reader thread appends it to
\* stdout_buffer_
ChildWrite(line) ==
    /\ child = "alive"
    /\ Len(written) < MaxWritten
    /\ written' = Append(written, line)
    /\ last_op' = [op |-> "child_write"]
    /\ UNCHANGED <<stop_log_thread_, log_pc, main_pc, n_read, log_cache_,
                   MAX_LOG_CACHE>>
    /\ UNCHANGED <<now, prog_running, sm_running, stdin_pipe, bufVars, reqVars,
                   banVars, progVars, extVars>>

\* log_reader_thread_func: the ServerLogEntry made for an event; seq, the
\* position of the line in the child's output, stands for its time_point
EntryOf(event, seq) ==
    [type |-> IF event.type = "PLAYER_JOIN" THEN "join"
              ELSE IF event.type = "PLAYER_LEAVE" THEN "leave"
              ELSE IF event.type = "PLAYER_COMMAND" THEN "command"
              ELSE "chat",
     player |-> event.player_name,
     content |-> IF event.type = "PLAYER_JOIN" THEN event.client_info
                 ELSE IF event.type = "PLAYER_LEAVE" THEN <<>>
                 ELSE event.content,
     seq |-> seq]

\* variants of add_log_entry: the entry put at the front, the newest dropped
AddLogEntryAtFront(cache, entry, limit) ==
    IF Len(cache) + 1 > limit THEN <<entry>> \o SubSeq(cache, 1, Len(cache) - 1)
    ELSE <<entry>> \o cache

AddLogEntryDropsNewest(cache, entry, limit) ==
    IF Len(cache) + 1 > limit THEN cache ELSE Append(cache, entry)

\* add_log_entry(entry): push_back, then pop_front when over the limit
AddLogEntry(cache, entry, limit) ==
    IF Len(cache) + 1 > limit THEN Tail(Append(cache, entry))
    ELSE Append(cache, entry)

\* log_reader_thread_func, one turn of the loop with a line: is_running(),
\* read_string, process_log_line (with the ban() it calls), the switch and
\* add_log_entry
PumpLine ==
    /\ log_pc = "loop"
    /\ ~stop_log_thread_
    /\ prog_running
    /\ n_read < Len(written)
    /\ LET line == written[n_read + 1]
       IN  \E found \in FoundPlayers(Parsed[line].content, all_players_) :
              LET r == ProcessParsed(Parsed[line], all_players_,
                                     online_players_, forbidden_commands_, now,
                                     found)
                  b == BanEach(r.calls, banned_players_, stdin_pipe,
                               prog_running, now)
              IN  /\ all_players_' = r.players
                  /\ online_players_' = r.online
                  /\ banned_players_' = b.bans
                  /\ stdin_pipe' = b.pipe
                  /\ IF r.calls = <<>>
                     THEN UNCHANGED <<player_file, banned_file>>
                     ELSE /\ player_file' = SavedPlayerFile(all_players_')
                          /\ banned_file' = SavedBanFile(banned_players_')
                  /\ granted' = Granted(granted, r.calls)
                  /\ n_bans' = n_bans + Len(r.calls)
                  /\ log_cache_' =
                        IF r.event.type = "NONE" THEN log_cache_
                        ELSE AddLogEntry(log_cache_,
                                         EntryOf(r.event, n_read + 1),
                                         MAX_LOG_CACHE)
                  /\ last_op' = [op |-> "pump", line |-> line,
                                 event |-> r.event]
    /\ n_read' = n_read + 1
    /\ UNCHANGED <<forbidden_commands_, sw_pc, to_unban, pending_line,
                   n_restarts>>
    /\ UNCHANGED <<stop_log_thread_, log_pc, main_pc, written, MAX_LOG_CACHE>>
    /\ UNCHANGED <<now, prog_running, sm_running, bufVars, reqVars, progVars,
                   extVars>>

\* log_reader_thread_func, one turn of the loop without a line: the child is
\* not running, or read_string returned nothing; sleep and go round again
PumpSleep ==
    /\ log_pc = "loop"
    /\ ~stop_log_thread_
    /\ ~prog_running \/ n_read = Len(written)
    /\ last_op' = [op |-> "pump_sleep", running |-> prog_running]
    /\ UNCHANGED <<now, prog_running, sm_running, stdin_pipe, bufVars, reqVars,
                   banVars, progVars, supVars, extVars>>

\* log_reader_thread_func: while (!stop_log_thread_) ends
PumpExit ==
    /\ log_pc = "loop"
    /\ stop_log_thread_
    /\ log_pc' = "done"
    /\ last_op' = [op |-> "pump_exit"]
    /\ UNCHANGED <<stop_log_thread_, main_pc, written, n_read, log_cache_,
                   MAX_LOG_CACHE>>
    /\ UNCHANGED <<now, prog_running, sm_running, stdin_pipe, bufVars, reqVars,
                   banVars, progVars, extVars>>

\* ServerManager::stop(), called by the signal handler: stop_log_thread_ is
\* set, then the log thread is joined
SupStopBegin ==
    /\ sm_running
    /\ ~stop_log_thread_
    /\ stop_log_thread_' = TRUE
    /\ last_op' = [op |-> "stop_begin"]
    /\ UNCHANGED <<log_pc, main_pc, written, n_read, log_cache_, MAX_LOG_CACHE>>
    /\ UNCHANGED <<now, prog_running, sm_running, stdin_pipe, bufVars, reqVars,
                   banVars, progVars, extVars>>

\* the signal stop() sends
SIGTERM == 15

\* ServerManager::stop() after the join: program_->stop() sends SIGTERM to a
\* running child, which ends by it; running_ = false
SupStopEnd ==
    /\ sm_running
    /\ stop_log_thread_
    /\ log_pc = "done"
    /\ sm_running' = FALSE
    /\ IF prog_running /\ child = "alive"
       THEN /\ child' = "exited"
            /\ wstatus' = [kind |-> "signaled", n |-> SIGTERM]
       ELSE UNCHANGED <<child, wstatus>>
    /\ last_op' = [op |-> "stop_end"]
    /\ UNCHANGED <<exit_code_, snd, snd2, stdin_bytes, n_runs, n_sends>>
    /\ UNCHANGED <<now, prog_running, stdin_pipe, bufVars, reqVars, banVars,
                   supVars, extVars>>

\* main(): while (server_manager.is_running() && ...) ends; main() goes on
\* to return, which shuts everything down
MainLeave ==
    /\ main_pc = "wait"
    /\ ~sm_running
    /\ main_pc' = "shutdown"
    /\ last_op' = [op |-> "main_leave"]
    /\ UNCHANGED <<stop_log_thread_, log_pc, written, n_read, log_cache_,
                   MAX_LOG_CACHE>>
    /\ UNCHANGED <<now, prog_running, sm_running, stdin_pipe, bufVars, reqVars,
                   banVars, progVars, extVars>>

SupervisorNext ==
    \/ SupStart
    \/ \E line \in ChildLines : ChildWrite(line)
    \/ PumpLine
    \/ PumpSleep
    \/ PumpExit
    \/ SupStopBegin
    \/ SupStopEnd
    \/ MainLeave
    \/ \E status \in ExitStatuses : ChildTerminates(status)
    \/ ReaderReap

(***************************************************************************)
(* Claims about dl::ServerManager                                          *)
(***************************************************************************)
\* C15: once the child has exited while the supervisor is started, the log
\* thread eventually ends its loop and main() eventually leaves its wait,
\* without a stop request from outside.
C15_ExitLeadsToShutdown ==
    (sm_running /\ child = "exited" /\ ~stop_log_thread_)
        ~> (log_pc = "done" /\ main_pc = "shutdown")

\* C35: every complete line the child writes to its stdout is eventually
\* classified by the log pump while the supervisor is not stopped, the lines
\* still in the pipe or in the line buffer when the child exits included,
\* all of the child's output being in the buffers and the exit code recorded
\* when running() is first seen false.
C35_EveryLineClassified ==
    \A i \in 1 .. MaxWritten :
        (Len(written) >= i) ~> (n_read >= i \/ stop_log_thread_)

\* the event process_log_line returns for a line of ChildLines, none of which
\* depends on the registry
EventOf(line) == ProcessParsed(Parsed[line], {}, <<>>, <<>>, 0, <<>>).event

\* C16: the entries of the audit ring are in the order in which the child
\* wrote the lines they were made from; in particular the entry of a player's
\* Join line is before the entry of every Command or Leave line of that
\* player that the child wrote after it.
C16_AuditOrder ==
    /\ \A i, j \in 1 .. Len(log_cache_) :
          i < j => log_cache_[i].seq < log_cache_[j].seq
    /\ \A i \in 1 .. Len(log_cache_) :
          /\ log_cache_[i].seq \in 1 .. n_read
          /\ log_cache_[i] =
                EntryOf(EventOf(written[log_cache_[i].seq]), log_cache_[i].seq)
    /\ \A i, j \in 1 .. Len(log_cache_) :
          (/\ log_cache_[i].type = "join"
           /\ log_cache_[j].type \in {"command", "leave"}
           /\ log_cache_[j].player = log_cache_[i].player
           /\ log_cache_[i].seq < log_cache_[j].seq) => i < j

\* the ring holds a player's Join entry and, after it, the entry of a
\* Command the child wrote later, with a line between them that left no entry
C16_Witness ==
    /\ Len(log_cache_) = 2
    /\ log_cache_[1].type = "join"
    /\ log_cache_[2].type = "command"
    /\ log_cache_[2].player = log_cache_[1].player
    /\ log_cache_[2].seq > log_cache_[1].seq + 1

\* the entries of the lines read so far, in the order read
RECURSIVE Audited(_, _)
Audited(lines, n) ==
    IF n = 0 THEN <<>>
    ELSE IF EventOf(lines[n]).type = "NONE" THEN Audited(lines, n - 1)
    ELSE Append(Audited(lines, n - 1), EntryOf(EventOf(lines[n]), n))

\* the last n elements of a sequence
LastN(seq, n) ==
    IF Len(seq) <= n THEN seq ELSE SubSeq(seq, Len(seq) - n + 1, Len(seq))

\* C17: after every add_log_entry the ring holds at most MAX_LOG_CACHE (1000)
\* entries, and they are the most recently appended ones in append order; a
\* line classified as Other adds no entry, and every Join, Leave, Command and
\* Chat event adds exactly one.
C17_AuditRing ==
    /\ Len(log_cache_) <= MAX_LOG_CACHE
    /\ log_cache_ = LastN(Audited(written, n_read), MAX_LOG_CACHE)

\* the ring is full, an older entry has been dropped, and a line classified
\* as Other was read without an entry
C17_Witness ==
    /\ Len(log_cache_) = MAX_LOG_CACHE
    /\ MAX_LOG_CACHE = MaxLogCache
    /\ Len(Audited(written, n_read)) > MAX_LOG_CACHE
    /\ \E k \in 1 .. n_read : written[k] = LINE_DONE
    /\ log_cache_[1].seq > 1

(***************************************************************************)
(* dl::PlayerList: lines that fit several patterns of process_log_line     *)
(***************************************************************************)
\* a chat line whose text has " left the game"
LINE_CHAT_LEFT ==
    <<"[", "i", "]", ":", " ", "<", "A", "l", ">", " ", "x", " ", "l", "e",
      "f", "t", " ", "t", "h", "e", " ", "g", "a", "m", "e", NL>>

\* "joined with" and "joined the game"
LINE_WITH_GAME ==
    <<"[", "i", "]", ":", " ", "P", "l", "a", "y", "e", "r", " ", "A", "l",
      " ", "j", "o", "i", "n", "e", "d", " ", "w", "i", "t", "h", " ", "f",
      " ", "j", "o", "i", "n", "e", "d", " ", "t", "h", "e", " ", "g", "a",
      "m", "e", NL>>

\* "joined the game" and "left the game"
LINE_GAME_LEFT ==
    <<"[", "i", "]", ":", " ", "B", "o", "b", " ", "j", "o", "i", "n", "e",
      "d", " ", "t", "h", "e", " ", "g", "a", "m", "e", " ", "l", "e", "f",
      "t", " ", "t", "h", "e", " ", "g", "a", "m", "e", NL>>

\* "left the game" and an issued command
LINE_LEFT_ISSUED ==
    <<"[", "i", "]", ":", " ", "B", "o", "b", " ", "l", "e", "f", "t", " ",
      "t", "h", "e", " ", "g", "a", "m", "e", " ", "i", "s", "s", "u", "e",
      "d", " ", "s", "e", "r", "v", "e", "r", " ", "c", "o", "m", "m", "a",
      "n", "d", ":", " ", "/", "x", NL>>

\* a bracket line that holds an issued command
LINE_BRACKET_ISSUED ==
    <<"[", "i", "]", ":", " ", "[", "a", ":", " ", "B", "o", "b", " ", "i",
      "s", "s", "u", "e", "d", " ", "s", "e", "r", "v", "e", "r", " ", "c",
      "o", "m", "m", "a", "n", "d", ":", " ", "/", "x", "]", NL>>

\* a chat line that holds an issued command
LINE_CHAT_ISSUED ==
    <<"[", "i", "]", ":", " ", "<", "A", "l", ">", " ", "B", "o", "b", " ",
      "i", "s", "s", "u", "e", "d", " ", "s", "e", "r", "v", "e", "r", " ",
      "c", "o", "m", "m", "a", "n", "d", ":", " ", "/", "x", NL>>

\* a chat line with " joined with " and no "Player " before it
LINE_CHAT_WITH ==
    <<"[", "i", "]", ":", " ", "<", "A", "l", ">", " ", "j", "o", "i", "n",
      "e", "d", " ", "w", "i", "t", "h", " ", "x", NL>>

\* no "]: " at all
LINE_NO_MARK ==
    <<"<", "A", "l", ">", " ", "x", " ", "l", "e", "f", "t", " ", "t", "h",
      "e", " ", "g", "a", "m", "e", NL>>

\* "]: " only once the escape sequence is removed
LINE_MARK_IN_ANSI ==
    <<"[", "i", "]", ESC, "[", "0", "m", ":", " ", "B", "o", "b", " ", "j",
      "o", "i", "n", "e", "d", " ", "t", "h", "e", " ", "g", "a", "m", "e",
      NL>>

\* lines for the rule loop: a key in the player's name only, and no name
LINE_KILLER_SAY ==
    <<"[", "i", "]", ":", " ", "K", "i", "l", "l", "e", "r", " ", "i", "s",
      "s", "u", "e", "d", " ", "s", "e", "r", "v", "e", "r", " ", "c", "o",
      "m", "m", "a", "n", "d", ":", " ", "/", "s", "a", "y", NL>>

LINE_NONAME_KILL ==
    <<"[", "i", "]", ":", " ", " ", "i", "s", "s", "u", "e", "d", " ", "s",
      "e", "r", "v", "e", "r", " ", "c", "o", "m", "m", "a", "n", "d", ":",
      " ", "/", "k", "i", "l", "l", NL>>

RuleLines ==
    {LINE_KILL_ALL, LINE_SAY, LINE_ACTION, LINE_JOIN, LINE_KILLER_SAY,
     LINE_NONAME_KILL}

ClassifyLines ==
    LogLines \cup {LINE_CHAT_LEFT, LINE_WITH_GAME, LINE_GAME_LEFT,
                   LINE_LEFT_ISSUED, LINE_BRACKET_ISSUED, LINE_CHAT_ISSUED,
                   LINE_CHAT_WITH, LINE_NO_MARK, LINE_MARK_IN_ANSI}

\* ParseLine, tabulated for the lines tried
Classified == [line \in ClassifyLines \cup RuleLines |-> ParseLine(line)]

\* process_log_line(line) called on its own, with the ban() calls it makes
Classify(line) ==
    /\ \E found \in FoundPlayers(Classified[line].content, all_players_) :
          LET r == ProcessParsed(Classified[line], all_players_,
                                 online_players_, forbidden_commands_, now,
                                 found)
              b == BanEach(r.calls, banned_players_, stdin_pipe, prog_running,
                           now)
          IN  /\ all_players_' = r.players
              /\ online_players_' = r.online
              /\ banned_players_' = b.bans
              /\ stdin_pipe' = b.pipe
              /\ IF r.calls = <<>>
                 THEN UNCHANGED <<player_file, banned_file>>
                 ELSE /\ player_file' = SavedPlayerFile(all_players_')
                      /\ banned_file' = SavedBanFile(banned_players_')
              /\ granted' = Granted(granted, r.calls)
              /\ n_bans' = n_bans + Len(r.calls)
              /\ last_op' = [op |-> "classify", line |-> line,
                             event |-> r.event]
    /\ UNCHANGED <<forbidden_commands_, sw_pc, to_unban, pending_line,
                   n_restarts>>
    /\ UNCHANGED <<now, prog_running, sm_running, bufVars, reqVars, progVars,
                   supVars, extVars>>

ClassifyNext == \E line \in ClassifyLines : Classify(line)

\* process_log_line on the lines for the rule loop, MaxBans bans at most
RulesNext ==
    \/ \E line \in RuleLines : n_bans < MaxBans /\ Classify(line)
    \/ SMStart

(***************************************************************************)
(* Claims about the classification of log lines                            *)
(***************************************************************************)
\* the patterns, each stated on the content alone
FitsJoinWith(content) ==
    /\ Contains(content, JOINED_WITH)
    /\ \E k \in 0 .. Find(content, JOINED_WITH) - 1 :
          Substr(content, k, Len(PLAYER_WORD)) = PLAYER_WORD

FitsBracket(content) ==
    /\ content # <<>>
    /\ content[1] = "["
    /\ \E e \in 1 .. Len(content) :
          /\ content[e] = "]"
          /\ \A j \in 1 .. e - 1 : content[j] # "]"
          /\ \E j \in 1 .. e - 1 : content[j] = ":"

FitsChat(content) ==
    /\ content # <<>>
    /\ content[1] = "<"
    /\ \E e \in 1 .. Len(content) : content[e] = ">"

\* the kinds in the order of their priority, and which of them fit
KindOrder == <<"join_with", "join", "leave", "issued", "bracket", "chat">>

Fits(content) ==
    <<FitsJoinWith(content), Contains(content, JOINED_GAME),
      Contains(content, LEFT_GAME), Contains(content, ISSUED_COMMAND),
      FitsBracket(content), FitsChat(content)>>

\* the kind the priority order gives a line
PriorityKind(log_line) ==
    LET clean_line == remove_ansi(log_line)
        content == SubstrFrom(clean_line,
                              Find(clean_line, CONTENT_MARK) + Len(CONTENT_MARK))
        fit == {i \in 1 .. Len(KindOrder) : Fits(content)[i]}
    IN  IF ~Contains(clean_line, CONTENT_MARK) \/ fit = {} THEN "other"
        ELSE KindOrder[Least(fit)]

\* the kind an event shows
EventKind(event) ==
    IF event.type = "PLAYER_JOIN"
    THEN IF event.client_info = VANILLA THEN "join" ELSE "join_with"
    ELSE IF event.type = "PLAYER_LEAVE" THEN "leave"
    ELSE IF event.type = "PLAYER_COMMAND"
    THEN IF event.content[1] = "/" THEN "issued" ELSE "bracket"
    ELSE IF event.type = "PLAYER_CHAT" THEN "chat"
    ELSE "other"

\* C21: the event process_log_line returns has the kind of the first pattern,
\* in the order Join("joined with"), Join("joined the game"), Leave,
\* Command("issued server command"), Command(bracket), Chat, that the content
\* fits, and Other when the cleaned line has no "]: " or fits none
C21_Priority ==
    last_op.op = "classify"
        => EventKind(last_op.event) = PriorityKind(last_op.line)

\* the lines that fit two patterns, and the one without "]: ", each with the
\* kind the priority gives: a chat line with " left the game" is a Leave
C21_Witness ==
    /\ last_op.op = "classify"
    /\ last_op.line = LINE_CHAT_LEFT
    /\ last_op.event.type = "PLAYER_LEAVE"
    /\ FitsChat(Classified[last_op.line].content)

(***************************************************************************)
(* Claims about the known and the online players                           *)
(***************************************************************************)
\* the step is process_log_line on a line it classifies as the given type
LineStep(type) ==
    /\ pending_line # <<>>
    /\ last_op'.op = "log"
    /\ last_op'.event.type = type

\* the online map is the same for every name but P
SameButFor(P) ==
    /\ DOMAIN online_players_' \ {P} = DOMAIN online_players_ \ {P}
    /\ \A q \in DOMAIN online_players_ \ {P} :
          online_players_'[q] = online_players_[q]

PARDON_VERB == <<"p", "a", "r", "d", "o", "n">>

\* is_self_pardon, first in a variant that looks for the applicant in the
\* whole command, the word "pardon" included
is_self_pardon_anywhere(applicant, command) ==
    LET stripped == to_lower(remove_spaces(command))
        cmd_lower == IF stripped # <<>> /\ stripped[1] = "/"
                     THEN SubstrFrom(stripped, 1) ELSE stripped
    IN  Find(cmd_lower, PARDON_VERB) = 0
        /\ Find(cmd_lower, to_lower(applicant)) # NPOS

is_self_pardon(applicant, command) ==
    LET stripped == to_lower(remove_spaces(command))
        applicant_lower == to_lower(applicant)
        cmd_lower == IF stripped # <<>> /\ stripped[1] = "/"
                     THEN SubstrFrom(stripped, 1) ELSE stripped
    IN  IF Find(cmd_lower, PARDON_VERB) = 0
        THEN LET rest == SubstrFrom(cmd_lower, Len(PARDON_VERB))
             IN  Find(rest, applicant_lower) # NPOS
        ELSE FALSE

\* the applicants and the commands tried: a command is a prefix, a verb, a
\* separator and an argument
Applicants == {<<"B", "o", "b">>, <<"D", "o", "n">>, <<"A", " ", "l">>, <<>>}

CommandPrefixes == {<<>>, <<"/">>, <<"/", "/">>, <<" ", "/">>, <<"/", " ">>}

CommandVerbs ==
    {PARDON_VERB, <<"P", "a", "r", "D", "O", "N">>,
     <<"p", "a", "r", " ", "d", "\t", "o", "n">>,
     <<"x", "p", "a", "r", "d", "o", "n">>, <<"p", "a", "r", "d", "o">>,
     <<"b", "a", "n">>}

CommandSeparators == {<<>>, <<" ">>}

CommandArguments ==
    {<<>>, <<"b", "o", "b">>, <<"B", " ", "O", "b">>,
     <<"c", "a", "r", "o", "l">>, <<"x", "b", "o", "b", "y">>,
     <<"a", " ", "l">>, <<"b", "o">>}

SelfPardonCommands ==
    {p \o v \o s \o a : p \in CommandPrefixes, v \in CommandVerbs,
                         s \in CommandSeparators, a \in CommandArguments}

\* is_self_pardon(applicant, command) is called and its result kept
SelfPardonCall(applicant, command) ==
    /\ last_op' = [op |-> "is_self_pardon", applicant |-> applicant,
                   command |-> command,
                   result |-> is_self_pardon(applicant, command)]
    /\ UNCHANGED <<now, prog_running, sm_running, stdin_pipe, bufVars, reqVars,
                   banVars, progVars, supVars, extVars>>

SelfPardonNext ==
    \E applicant \in Applicants, command \in SelfPardonCommands :
        SelfPardonCall(applicant, command)

(***************************************************************************)
(* Claims about is_self_pardon                                             *)
(***************************************************************************)
\* s without its spaces and tabs, in lower case, less one leading '/'
Folded(s) ==
    LET kept == SelectSeq(s, LAMBDA c : c \notin {" ", "\t"})
        low == [i \in 1 .. Len(kept) |-> ToLowerChar(kept[i])]
    IN  IF low # <<>> /\ low[1] = "/" THEN Tail(low) ELSE low

\* t occurs in s from position i (1-based) on
OccursAt(s, t, i) ==
    /\ i + Len(t) - 1 <= Len(s)
    /\ \A k \in 1 .. Len(t) : s[i + k - 1] = t[k]

\* C23: is_self_pardon(applicant, command) is true exactly when the command,
\* without spaces and tabs, in lower case and less one leading '/', begins
\* with "pardon" and the text after "pardon" contains the applicant's name in
\* lower case; ("Bob", "/pardon bob") is true, ("Bob", "/pardon carol") false.
C23_SelfPardon ==
    last_op.op = "is_self_pardon" =>
        LET d == Folded(last_op.command)
            name == to_lower(last_op.applicant)
        IN  /\ last_op.result
                  <=> /\ OccursAt(d, PARDON_VERB, 1)
                      /\ \E i \in Len(PARDON_VERB) + 1 .. Len(d) + 1 :
                            OccursAt(d, name, i)
            /\ (/\ last_op.applicant = <<"B", "o", "b">>
                /\ last_op.command
                      = <<"/", "p", "a", "r", "d", "o", "n", " ", "b", "o", "b">>)
                  => last_op.result
            /\ (/\ last_op.applicant = <<"B", "o", "b">>
                /\ last_op.command
                      = <<"/", "p", "a", "r", "d", "o", "n", " ", "c", "a", "r",
                          "o", "l">>)
                  => ~last_op.result

\* is_self_pardon("Bob", "/pardon bob") was called and returned true
C23_Witness ==
    /\ last_op.op = "is_self_pardon"
    /\ last_op.applicant = <<"B", "o", "b">>
    /\ last_op.command
          = <<"/", "p", "a", "r", "d", "o", "n", " ", "b", "o", "b">>
    /\ last_op.result

(***************************************************************************)
(* dl::WebServer: POST /api/requests                                       *)
(***************************************************************************)
FieldNames == {"applicant", "command", "reason"}

\* the values a body gives the three fields, when it has them
FieldValues ==
    [applicant |-> {<<"B", "o", "b">>, <<" ", "B", "o", "b">>, <<"Z">>},
     command |-> {<<"/", "p", "a", "r", "d", "o", "n", " ", "b", "o", "b">>,
                  <<"s">>},
     reason |-> {<<"r">>}]

\* the request bodies tried: multipart/form-data or url-encoded, any subset of
\* the three fields, and for multipart an image file or none
PostBodies ==
    {[multipart |-> mp, fields |-> f, image |-> img] :
        mp \in BOOLEAN,
        f \in UNION {{g \in [names -> UNION {FieldValues[n] : n \in FieldNames}] :
                          \A n \in names : g[n] \in FieldValues[n]} :
                     names \in SUBSET FieldNames},
        img \in {NoImage, <<".png">>}}

\* req.get_param_value(key): "" when the parameter is absent
GetParamValue(body, key) ==
    IF key \in DOMAIN body.fields THEN body.fields[key] ELSE <<>>

\* the "Missing required fields" test of each branch
MissingFields(body) ==
    IF body.multipart
    THEN \/ "applicant" \notin DOMAIN body.fields
         \/ "command" \notin DOMAIN body.fields
         \/ "reason" \notin DOMAIN body.fields
    ELSE "applicant" \notin DOMAIN body.fields

\* res.status = 400 with an {"error": ...} body, and return
Reply400(body, error) ==
    /\ last_op' = [op |-> "post", body |-> body, status |-> 400,
                   error |-> error, id |-> <<>>]
    /\ UNCHANGED <<now, prog_running, sm_running, stdin_pipe, bufVars, reqVars,
                   banVars, progVars, supVars, extVars>>

\* WebServer::handle_post_request, with the player_exists callback main()
\* installs (a lookup in list_player())
PostRequest(body, rnd) ==
    LET applicant == Trim(GetParamValue(body, "applicant"))
        command == Trim(GetParamValue(body, "command"))
        reason == Trim(GetParamValue(body, "reason"))
        image_ext == IF body.multipart THEN body.image ELSE NoImage
    IN  /\ ~body.multipart => body.image = NoImage
        /\ IF MissingFields(body)
           THEN Reply400(body, "Missing required fields")
           ELSE IF applicant \notin all_players_
           THEN Reply400(body, "Player not found")
           ELSE IF is_self_pardon(applicant, command) /\ image_ext = NoImage
           THEN Reply400(body, "Self-pardon requires confession image")
           ELSE CreateRequestAs(applicant, command, reason, image_ext, rnd,
                                [op |-> "post", body |-> body, status |-> 200,
                                 error |-> "", id |-> GenerateId(now, rnd)])

WebNext ==
    \/ \E body \in PostBodies, rnd \in 1 .. MaxRand : PostRequest(body, rnd)
    \/ Classify(LINE_JOIN)
    \/ AdvanceClock

(***************************************************************************)
(* Claims about POST /api/requests                                         *)
(***************************************************************************)
\* C24: POST /api/requests answers 400 with an error and leaves the request
\* map as it was whenever applicant, command or reason is missing, the
\* applicant is not a known player, or the command is a self-pardon and no
\* image is attached, for multipart and url-encoded bodies alike; otherwise
\* it creates exactly one request and returns its id.
C24_PostRequest ==
    [][last_op'.op = "post" =>
          LET body == last_op'.body
              applicant == Trim(GetParamValue(body, "applicant"))
              command == Trim(GetParamValue(body, "command"))
              refused ==
                  \/ FieldNames \ DOMAIN body.fields # {}
                  \/ applicant \notin all_players_
                  \/ /\ is_self_pardon(applicant, command)
                     /\ body.image = NoImage
          IN  IF refused
              THEN /\ last_op'.status = 400
                   /\ last_op'.error # ""
                   /\ requests_' = requests_
              ELSE /\ last_op'.status = 200
                   /\ last_op'.id \notin DOMAIN requests_
                   /\ DOMAIN requests_' = DOMAIN requests_ \cup {last_op'.id}
                   /\ \A id \in DOMAIN requests_ :
                         requests_'[id] = requests_[id]
      ]_vars

(***************************************************************************)
(* Start-up: the constructors of PlayerList and CommandRequestManager and  *)
(* the files they find                                                     *)
(***************************************************************************)
PlayerListFiles == {"player_file", "banned_file", "forbidden_file"}

RequestFiles == {"data_file"}

PersistedFiles == PlayerListFiles \cup RequestFiles

\* every other specification starts after main() has constructed both
\* components with no file on disk: load_files() has created its three
\* files, load_data() none
ExtBooted ==
    /\ fs_exists = PlayerListFiles
    /\ constructed = {"PlayerList", "CommandRequestManager"}
    /\ ThreadsInit({"sweeper", "executor"})

\* what the files hold at start-up when they exist
StartPlayerFiles ==
    {{}, {<<"B", "o", "b">>}, {<<"B", "o", "b">>, <<" ", "A", "l", " ">>}}

StartBanFiles ==
    {{}, SavedBanFile(Put(<<>>, <<"B", "o", "b">>,
                          BanInfo(<<"B", "o", "b">>, <<"r">>, 0, StartHour)))}

StartRequests ==
    LET id == GenerateId(StartHour, 1)
    IN  Put(<<>>, id,
            [id |-> id, applicant |-> <<"B", "o", "b">>, command |-> <<"s">>,
             reason |-> <<"r">>, image_path |-> <<>>, voted_ips |-> {},
             created_at |-> StartHour, executed_at |-> EPOCH,
             executed |-> FALSE, uid |-> 0])

StartDataFiles == {<<>>, SaveData(StartRequests)}

\* load_data() on a file save_data() wrote with one-line values; uid 0 marks
\* a request that was not created in this run
LoadSaved(file) ==
    [id \in DOMAIN file |->
        [id |-> file[id].id,
         applicant |-> file[id].applicant,
         command |-> file[id].command,
         reason |-> file[id].reason,
         image_path |-> file[id].image,
         voted_ips |-> file[id].votes,
         created_at |-> file[id].created,
         executed_at |-> IF file[id].executed_at = <<>> THEN EPOCH
                         ELSE file[id].executed_at[1],
         executed |-> file[id].executed,
         uid |-> 0]]

\* before main() constructs anything: any subset of the files is there
StartupInit ==
    /\ fs_exists \in SUBSET PersistedFiles
    /\ constructed = {}
    /\ ThreadsInit({})
    /\ all_players_ = {}
    /\ online_players_ = <<>>
    /\ banned_players_ = <<>>
    /\ forbidden_commands_ = <<>>
    /\ player_file \in IF "player_file" \in fs_exists
                       THEN StartPlayerFiles ELSE {{}}
    /\ banned_file \in IF "banned_file" \in fs_exists
                       THEN StartBanFiles ELSE {{}}
    /\ sw_pc = "wait"
    /\ to_unban = <<>>
    /\ pending_line = <<>>
    /\ granted = <<>>
    /\ n_bans = 0
    /\ n_restarts = 0
    /\ requests_ = <<>>
    /\ vote_threshold_ = MAIN_VOTE_THRESHOLD
    /\ upload_dir = {}
    /\ data_file \in IF "data_file" \in fs_exists
                     THEN StartDataFiles ELSE {<<>>}
    /\ chk_pc = "wait"
    /\ to_execute = <<>>
    /\ cb_i = 0
    /\ images_to_delete = {}
    /\ n_created = 0
    /\ cb_count = [id \in AllIds |-> 0]
    /\ cb_line = [u \in 1 .. MaxCreates |-> <<>>]
    /\ voters = [u \in 1 .. MaxCreates |-> {}]

\* PlayerList::PlayerList: load_files(); a file that cannot be opened is
\* created empty by std::ofstream(path)
ConstructPlayerList ==
    /\ "PlayerList" \notin constructed
    /\ all_players_' = IF "player_file" \in fs_exists
                       THEN LoadPlayers(player_file) ELSE {}
    /\ \E lines \in Orderings(banned_file) :
          banned_players_' = IF "banned_file" \in fs_exists
                             THEN LoadBans(lines, <<>>) ELSE <<>>
    /\ forbidden_commands_' \in IF "forbidden_file" \in fs_exists
                                THEN RuleLists \cup {<<>>} ELSE {<<>>}
    /\ fs_exists' = fs_exists \cup PlayerListFiles
    /\ constructed' = constructed \cup {"PlayerList"}
    /\ thr' = [thr EXCEPT !["sweeper"] = "head"]
    /\ last_op' = [op |-> "construct", component |-> "PlayerList",
                   missing |-> PlayerListFiles \ fs_exists]
    /\ UNCHANGED <<online_players_, player_file, banned_file, sw_pc, to_unban,
                   pending_line, granted, n_bans, n_restarts>>
    /\ UNCHANGED <<now, prog_running, sm_running, stdin_pipe, bufVars, reqVars,
                   progVars, supVars, mtx, stop_checker_, due, branch,
                   stop_reader_, destroyed>>

\* CommandRequestManager::CommandRequestManager: load_data(), which returns
\* at once when the file cannot be opened; main() constructs it after the
\* PlayerList
ConstructRequestManager ==
    /\ "PlayerList" \in constructed
    /\ "CommandRequestManager" \notin constructed
    /\ requests_' = IF "data_file" \in fs_exists
                    THEN LoadSaved(data_file) ELSE requests_
    /\ constructed' = constructed \cup {"CommandRequestManager"}
    /\ thr' = [thr EXCEPT !["executor"] = "head"]
    /\ last_op' = [op |-> "construct", component |-> "CommandRequestManager",
                   missing |-> RequestFiles \ fs_exists]
    /\ UNCHANGED <<vote_threshold_, upload_dir, data_file, chk_pc, to_execute,
                   cb_i, images_to_delete, n_created, cb_count, cb_line,
                   voters>>
    /\ UNCHANGED <<now, prog_running, sm_running, stdin_pipe, bufVars, banVars,
                   progVars, supVars, fs_exists, mtx, stop_checker_, due,
                   branch, stop_reader_, destroyed>>

StartupNext ==
    \/ ConstructPlayerList
    \/ ConstructRequestManager

(***************************************************************************)
(* Claims about start-up                                                   *)
(***************************************************************************)
\* the collection read from a file, and whether what the file holds is empty
CollectionEmpty(file) ==
    CASE file = "player_file" -> all_players_ = {}
      [] file = "banned_file" -> banned_players_ = <<>>
      [] file = "forbidden_file" -> forbidden_commands_ = <<>>
      [] file = "data_file" -> requests_ = <<>>

FileEmpty(file) ==
    CASE file = "player_file" -> player_file = {}
      [] file = "banned_file" -> banned_file = {}
      [] file = "forbidden_file" -> TRUE
      [] file = "data_file" -> data_file = <<>>

\* C25: when the constructor of a component has finished, each of its
\* persisted files (players, banned, forbidden commands, requests) that did
\* not exist at start-up now exists and is empty, and the collection read
\* from it is empty.
C25_MissingFiles ==
    last_op.op = "construct" =>
        \A file \in last_op.missing :
            /\ CollectionEmpty(file)
            /\ file \in fs_exists
            /\ FileEmpty(file)


(***************************************************************************)
(* The threads: what each holds and where it is.  The steps of this        *)
(* section follow the locks, the flags and the joins of the code; the data *)
(* the same functions change is followed by the sections above.            *)
(***************************************************************************)
\* entries a worker collects in one turn of its loop
MaxDue == 2

\* std::mutex::lock() by thread t, std::mutex::unlock()
Lock(m, t) == [mtx EXCEPT ![m] = t]

Unlock(m) == [mtx EXCEPT ![m] = "free"]

Goto(t, pc) == thr' = [thr EXCEPT ![t] = pc]

\* the process is there: main() has not returned and exit(0) was not called
ProcessAlive == thr["main"] \notin {"end", "exit"}

\* variant of the test: the worker never leaves its loop
NeverBreak(stop) == FALSE

\* checker threads: if (stop_checker_) break;
ShouldBreak(stop) == stop

\* ban_checker_thread_func and checker_thread_func, the head of the loop:
\* unique_lock lock(checker_mutex_); wait_for(lock, period, pred), which
\* tests pred under the lock, releases it to wait and takes it again after a
\* notify or the timeout; if (stop_checker_) break; and the end of the turn,
\* where lock goes out of scope
WorkerWait(t, owner, checker) ==
    \/ /\ thr[t] = "head"
       /\ mtx[checker] = "free"
       /\ mtx' = Lock(checker, t)
       /\ Goto(t, "pred")
    \/ /\ thr[t] = "pred"
       /\ IF stop_checker_[owner]
          THEN Goto(t, "test") /\ UNCHANGED mtx
          ELSE Goto(t, "waiting") /\ mtx' = Unlock(checker)
    \/ /\ thr[t] = "waiting"
       /\ mtx[checker] = "free"
       /\ mtx' = Lock(checker, t)
       /\ Goto(t, "test")
    \/ /\ thr[t] = "test"
       /\ IF ShouldBreak(stop_checker_[owner])
          THEN Goto(t, "done") /\ mtx' = Unlock(checker)
          ELSE Goto(t, "sweep") /\ UNCHANGED mtx
    \/ /\ thr[t] = "loop_end"
       /\ mtx' = Unlock(checker)
       /\ Goto(t, "head")

\* PlayerList::ban_checker_thread_func with the pardon() it calls
BanCheckerThread ==
    /\ ProcessAlive
    /\ \/ /\ WorkerWait("sweeper", "PlayerList", PL_CHECKER_MUTEX)
          /\ UNCHANGED due
       \/ \* { lock_guard data_lock(mutex_);
          /\ thr["sweeper"] = "sweep"
          /\ mtx[PL_MUTEX] = "free"
          /\ mtx' = Lock(PL_MUTEX, "sweeper")
          /\ Goto("sweeper", "collect")
          /\ UNCHANGED due
       \/ \* to_unban is filled }
          /\ thr["sweeper"] = "collect"
          /\ \E n \in 0 .. MaxDue :
                /\ due' = [due EXCEPT !["sweeper"] = n]
                /\ Goto("sweeper", IF n = 0 THEN "loop_end" ELSE "pardon")
          /\ mtx' = Unlock(PL_MUTEX)
       \/ \* pardon(player) is called: { lock_guard lock(mutex_);
          /\ thr["sweeper"] = "pardon"
          /\ mtx[PL_MUTEX] = "free"
          /\ mtx' = Lock(PL_MUTEX, "sweeper")
          /\ Goto("sweeper", "pardon_erase")
          /\ UNCHANGED due
       \/ \* if (banned_players_.erase(player) == 0) return false; }
          /\ thr["sweeper"] = "pardon_erase"
          /\ mtx' = Unlock(PL_MUTEX)
          /\ \/ Goto("sweeper", "pardon_send") /\ UNCHANGED due
             \/ /\ due' = [due EXCEPT !["sweeper"] = due["sweeper"] - 1]
                /\ Goto("sweeper", IF due["sweeper"] > 1 THEN "pardon"
                                   ELSE "loop_end")
       \/ \* send_string("pardon ..."); save_files(); return true;
          /\ thr["sweeper"] = "pardon_send"
          /\ due' = [due EXCEPT !["sweeper"] = due["sweeper"] - 1]
          /\ Goto("sweeper", IF due["sweeper"] > 1 THEN "pardon"
                             ELSE "loop_end")
          /\ UNCHANGED mtx
    /\ UNCHANGED <<stop_checker_, branch, stop_reader_, destroyed>>
    /\ UNCHANGED <<bufVars, envVars, reqVars, banVars, progVars, supVars,
                   fs_exists, constructed>>

\* variant: the branch calls ban() with mutex_ still locked
NoUnlockBeforeBan(m) == m

\* process_log_line, both Command branches: mutex_.unlock(); before ban(...)
UnlockBeforeBan(m) == [m EXCEPT ![PL_MUTEX] = "free"]

\* ServerManager::log_reader_thread_func with the process_log_line and the
\* ban() it calls
LogReaderThread ==
    /\ ProcessAlive
    /\ \/ \* while (!stop_log_thread_): a line of one of the kinds is read
          /\ thr["log"] = "head"
          /\ IF stop_log_thread_
             THEN Goto("log", "done") /\ UNCHANGED branch
             ELSE /\ prog_running
                  /\ \E kind \in {"join_leave", "issued", "bracket"} :
                        /\ Goto("log", kind)
                        /\ branch' = IF kind = "join_leave" THEN "none"
                                     ELSE kind
          /\ UNCHANGED mtx
       \/ \* Join and Leave: lock_guard lock(mutex_); ...; return event;
          /\ thr["log"] = "join_leave"
          /\ mtx[PL_MUTEX] = "free"
          /\ Goto("log", "head")
          /\ UNCHANGED <<mtx, branch>>
       \/ \* the bracket branch: { lock_guard lock(mutex_); the search }
          /\ thr["log"] = "bracket"
          /\ mtx[PL_MUTEX] = "free"
          /\ Goto("log", "issued")
          /\ UNCHANGED <<mtx, branch>>
       \/ \* std::lock_guard lock(mutex_); before the loop over the rules
          /\ thr["log"] = "issued"
          /\ mtx[PL_MUTEX] = "free"
          /\ mtx' = Lock(PL_MUTEX, "log")
          /\ Goto("log", "rules")
          /\ UNCHANGED branch
       \/ \* the loop: a rule matches, or none does and the function returns
          /\ thr["log"] = "rules"
          /\ \/ mtx' = UnlockBeforeBan(mtx) /\ Goto("log", "ban_call")
             \/ mtx' = Unlock(PL_MUTEX) /\ Goto("log", "head")
          /\ UNCHANGED branch
       \/ \* ban(...) is called: { lock_guard lock(mutex_);
          /\ thr["log"] = "ban_call"
          /\ mtx[PL_MUTEX] = "free"
          /\ mtx' = Lock(PL_MUTEX, "log")
          /\ Goto("log", "ban_insert")
          /\ UNCHANGED branch
       \/ \* banned_players_[player] = info; }
          /\ thr["log"] = "ban_insert"
          /\ mtx' = Unlock(PL_MUTEX)
          /\ Goto("log", "ban_send")
          /\ UNCHANGED branch
       \/ \* send_string("ban ..."); save_files(); return true;
          /\ thr["log"] = "ban_send"
          /\ Goto("log", "relock")
          /\ UNCHANGED <<mtx, branch>>
       \/ \* mutex_.lock(); break;
          /\ thr["log"] = "relock"
          /\ mtx[PL_MUTEX] = "free"
          /\ mtx' = Lock(PL_MUTEX, "log")
          /\ Goto("log", "ret")
          /\ UNCHANGED branch
       \/ \* return event; the lock_guard unlocks
          /\ thr["log"] = "ret"
          /\ mtx' = Unlock(PL_MUTEX)
          /\ Goto("log", "head")
          /\ UNCHANGED branch
    /\ UNCHANGED <<stop_checker_, due, stop_reader_, destroyed>>
    /\ UNCHANGED <<bufVars, envVars, reqVars, banVars, progVars, supVars,
                   fs_exists, constructed>>

\* CommandRequestManager::checker_thread_func with check_and_execute and
\* cleanup_expired
CheckerThread ==
    /\ ProcessAlive
    /\ \/ /\ WorkerWait("executor", "CommandRequestManager", CR_CHECKER_MUTEX)
          /\ UNCHANGED due
       \/ \* check_and_execute: { lock_guard lock(mutex_);
          /\ thr["executor"] = "sweep"
          /\ mtx[CR_MUTEX] = "free"
          /\ mtx' = Lock(CR_MUTEX, "executor")
          /\ Goto("executor", "mark")
          /\ UNCHANGED due
       \/ \* the requests over the threshold are marked and copied }
          /\ thr["executor"] = "mark"
          /\ \E n \in 0 .. MaxDue :
                /\ due' = [due EXCEPT !["executor"] = n]
                /\ Goto("executor", IF n = 0 THEN "cleanup" ELSE "callback")
          /\ mtx' = Unlock(CR_MUTEX)
       \/ \* execute_callback_(req.command, req.applicant)
          /\ thr["executor"] = "callback"
          /\ due' = [due EXCEPT !["executor"] = due["executor"] - 1]
          /\ Goto("executor", IF due["executor"] > 1 THEN "callback"
                              ELSE "save")
          /\ UNCHANGED mtx
       \/ \* if (!to_execute.empty()) save_data();
          /\ thr["executor"] = "save"
          /\ Goto("executor", "cleanup")
          /\ UNCHANGED <<mtx, due>>
       \/ \* cleanup_expired: { lock_guard lock(mutex_); ... } and the rest
          /\ thr["executor"] = "cleanup"
          /\ mtx[CR_MUTEX] = "free"
          /\ Goto("executor", "loop_end")
          /\ UNCHANGED <<mtx, due>>
    /\ UNCHANGED <<stop_checker_, branch, stop_reader_, destroyed>>
    /\ UNCHANGED <<bufVars, envVars, reqVars, banVars, progVars, supVars,
                   fs_exists, constructed>>

\* a handler of the web server calls vote() or create_request():
\* std::lock_guard lock(mutex_) for the time of the change
WebThread ==
    /\ ProcessAlive
    /\ thr["main"] = "run"
    /\ \/ /\ thr["web"] = "idle"
          /\ mtx[CR_MUTEX] = "free"
          /\ mtx' = Lock(CR_MUTEX, "web")
          /\ Goto("web", "vote")
       \/ /\ thr["web"] = "vote"
          /\ mtx' = Unlock(CR_MUTEX)
          /\ Goto("web", "idle")
    /\ UNCHANGED <<stop_checker_, due, branch, stop_reader_, destroyed>>
    /\ UNCHANGED <<bufVars, envVars, reqVars, banVars, progVars, supVars,
                   fs_exists, constructed>>

\* Program::reader_thread_func
ReaderThread ==
    /\ ProcessAlive
    /\ \/ \* while (!stop_reader_)
          /\ thr["reader"] = "head"
          /\ Goto("reader", IF stop_reader_ THEN "done" ELSE "body")
          /\ UNCHANGED <<prog_running, child, exit_code_>>
       \/ \* read(stdout_pipe_[0]), stdout_buffer_->append, the same for
          \* stderr, waitpid(child_pid_): the child that exited is reaped
          /\ thr["reader"] = "body"
          /\ IF child = "exited"
             THEN /\ exit_code_' = ExitCodeOf(wstatus, exit_code_)
                  /\ prog_running' = FALSE
                  /\ child' = "none"
                  /\ Goto("reader", "done")
             ELSE /\ Goto("reader", "head")
                  /\ UNCHANGED <<prog_running, child, exit_code_>>
    /\ UNCHANGED <<mtx, stop_checker_, due, branch, stop_reader_, destroyed>>
    /\ UNCHANGED <<now, sm_running, stdin_pipe, last_op, wstatus, snd, snd2,
                   stdin_bytes, n_runs, n_sends>>
    /\ UNCHANGED <<bufVars, reqVars, banVars, supVars, fs_exists, constructed>>

\* the signal kill() sends
SIGKILL == 9

\* the child after ::kill(child_pid_, sig), when it is running
Signalled(sig) ==
    IF prog_running /\ child = "alive"
    THEN /\ child' = "exited"
         /\ wstatus' = [kind |-> "signaled", n |-> sig]
    ELSE UNCHANGED <<child, wstatus>>

\* main(): server_manager.start(), the wait loop, the signal handler with its
\* exit(0), and the destructors of main()'s objects in the reverse of the
\* order of construction: request_manager, server_manager, player_list,
\* program
MainThread ==
    /\ \/ \* ServerManager::start(): program_->run() starts the reader
          \* thread; running_ = true; the log thread is started
          /\ thr["main"] = "init"
          /\ prog_running' = TRUE
          /\ child' = "alive"
          /\ sm_running' = TRUE
          /\ stop_log_thread_' = FALSE
          /\ stop_reader_' = FALSE
          /\ thr' = [thr EXCEPT !["main"] = "run", !["reader"] = "head",
                                !["log"] = "head"]
          /\ UNCHANGED <<mtx, stop_checker_, destroyed, wstatus>>
       \/ \* signal_handler: g_server_manager->stop(): stop_log_thread_ = true
          /\ thr["main"] = "run"
          /\ sm_running
          /\ stop_log_thread_' = TRUE
          /\ Goto("main", "sig_join")
          /\ UNCHANGED <<mtx, stop_checker_, destroyed, stop_reader_,
                         prog_running, sm_running, child, wstatus>>
       \/ \* stop(): log_thread_.join(); program_->stop(); running_ = false;
          \* then exit(0)
          /\ thr["main"] = "sig_join"
          /\ thr["log"] = "done"
          /\ Signalled(SIGTERM)
          /\ sm_running' = FALSE
          /\ Goto("main", "exit")
          /\ UNCHANGED <<mtx, stop_checker_, destroyed, stop_reader_,
                         prog_running, stop_log_thread_>>
       \/ \* the loop of main() ends and the block is left; the handlers of
          \* the web server have returned
          /\ thr["main"] = "run"
          /\ thr["web"] = "idle"
          /\ Goto("main", "cr_stop")
          /\ UNCHANGED <<mtx, stop_checker_, destroyed, stop_reader_,
                         prog_running, sm_running, child, wstatus,
                         stop_log_thread_>>
       \/ \* ~CommandRequestManager: { lock_guard lock(checker_mutex_);
          \* stop_checker_ = true; } checker_cv_.notify_all();
          /\ thr["main"] = "cr_stop"
          /\ mtx[CR_CHECKER_MUTEX] = "free"
          /\ stop_checker_' = [stop_checker_ EXCEPT
                                  !["CommandRequestManager"] = TRUE]
          /\ Goto("main", "cr_join")
          /\ UNCHANGED <<mtx, destroyed, stop_reader_, prog_running,
                         sm_running, child, wstatus, stop_log_thread_>>
       \/ \* checker_thread_.join(); save_data();
          /\ thr["main"] = "cr_join"
          /\ thr["executor"] = "done"
          /\ destroyed' = destroyed \cup {"CommandRequestManager"}
          /\ Goto("main", "sm_stop")
          /\ UNCHANGED <<mtx, stop_checker_, stop_reader_, prog_running,
                         sm_running, child, wstatus, stop_log_thread_>>
       \/ \* ~ServerManager: stop(): if (!running_) return;
          \* stop_log_thread_ = true;
          /\ thr["main"] = "sm_stop"
          /\ IF sm_running
             THEN /\ stop_log_thread_' = TRUE
                  /\ Goto("main", "sm_join")
                  /\ UNCHANGED destroyed
             ELSE /\ destroyed' = destroyed \cup {"ServerManager"}
                  /\ Goto("main", "pl_stop")
                  /\ UNCHANGED stop_log_thread_
          /\ UNCHANGED <<mtx, stop_checker_, stop_reader_, prog_running,
                         sm_running, child, wstatus>>
       \/ \* log_thread_.join(); program_->stop(); running_ = false;
          /\ thr["main"] = "sm_join"
          /\ thr["log"] = "done"
          /\ Signalled(SIGTERM)
          /\ sm_running' = FALSE
          /\ destroyed' = destroyed \cup {"ServerManager"}
          /\ Goto("main", "pl_stop")
          /\ UNCHANGED <<mtx, stop_checker_, stop_reader_, prog_running,
                         stop_log_thread_>>
       \/ \* ~PlayerList: { lock_guard lock(checker_mutex_);
          \* stop_checker_ = true; } checker_cv_.notify_all();
          /\ thr["main"] = "pl_stop"
          /\ mtx[PL_CHECKER_MUTEX] = "free"
          /\ stop_checker_' = [stop_checker_ EXCEPT !["PlayerList"] = TRUE]
          /\ Goto("main", "pl_join")
          /\ UNCHANGED <<mtx, destroyed, stop_reader_, prog_running,
                         sm_running, child, wstatus, stop_log_thread_>>
       \/ \* checker_thread_.join();
          /\ thr["main"] = "pl_join"
          /\ thr["sweeper"] = "done"
          /\ Goto("main", "pl_clear")
          /\ UNCHANGED <<mtx, stop_checker_, destroyed, stop_reader_,
                         prog_running, sm_running, child, wstatus,
                         stop_log_thread_>>
       \/ \* lock_guard lock(mutex_); online_players_.clear(); save_files();
          /\ thr["main"] = "pl_clear"
          /\ mtx[PL_MUTEX] = "free"
          /\ destroyed' = destroyed \cup {"PlayerList"}
          /\ Goto("main", "prog_dtor")
          /\ UNCHANGED <<mtx, stop_checker_, stop_reader_, prog_running,
                         sm_running, child, wstatus, stop_log_thread_>>
       \/ \* ~Program: if (running_) kill(); cleanup(): stop_reader_ = true;
          \* close_pipes(); the members, the buffers among them, are
          \* destroyed
          /\ thr["main"] = "prog_dtor"
          /\ Signalled(SIGKILL)
          /\ stop_reader_' = TRUE
          /\ destroyed' = destroyed \cup {"Program"}
          /\ Goto("main", "return")
          /\ UNCHANGED <<mtx, stop_checker_, prog_running, sm_running,
                         stop_log_thread_>>
       \/ \* return 0; the process ends
          /\ thr["main"] = "return"
          /\ Goto("main", "end")
          /\ UNCHANGED <<mtx, stop_checker_, destroyed, stop_reader_,
                         prog_running, sm_running, child, wstatus,
                         stop_log_thread_>>
    /\ UNCHANGED <<due, branch>>
    /\ UNCHANGED <<now, stdin_pipe, last_op, exit_code_, snd, snd2, stdin_bytes,
                   n_runs, n_sends, log_pc, main_pc, written, n_read,
                   log_cache_, MAX_LOG_CACHE>>
    /\ UNCHANGED <<bufVars, reqVars, banVars, fs_exists, constructed>>

ThreadsNext ==
    \/ MainThread
    \/ WebThread
    \/ LogReaderThread
    \/ ReaderThread
    \/ BanCheckerThread
    \/ CheckerThread


\* C26: the executor callback is never invoked while the executor thread
\* holds a mutex of the voting engine, neither the data mutex of the request
\* map nor the checker mutex of its wait; so a vote(), a create or the
\* destructor called during a callback is not blocked by the executor.
C26_CallbackHoldsNoMutex ==
    thr["executor"] = "callback" =>
        /\ mtx[CR_MUTEX] # "executor"
        /\ mtx[CR_CHECKER_MUTEX] # "executor"


\* the positions at which a thread calls ban() or pardon(), and those at
\* which it writes to the child's stdin
CallsAndWrites == {"pardon", "pardon_send", "ban_call", "ban_send"}

\* C27: no thread writes to the child's stdin or calls ban() or pardon()
\* while it holds the data mutex of the ban registry: the sweeper with its
\* pardons, and process_log_line on both Command branches, the path after
\* ban() has returned included (the mutex is taken again only then).
C27_NoCallUnderDataMutex ==
    \A t \in {"sweeper", "log"} :
        /\ thr[t] \in CallsAndWrites => mtx[PL_MUTEX] # t
        /\ thr[t] = "relock" => mtx[PL_MUTEX] # t
        /\ thr[t] = "ret" => mtx[PL_MUTEX] = t

\* the log thread writes the ban line of the bracket branch while the
\* sweeper writes a pardon line, and nobody holds the data mutex
C27_Witness ==
    /\ thr["log"] = "ban_send"
    /\ branch = "bracket"
    /\ thr["sweeper"] = "pardon_send"
    /\ mtx[PL_MUTEX] = "free"


\* the worker thread each component owns
WorkerOf ==
    [c \in {"Program", "ServerManager", "PlayerList", "CommandRequestManager"} |->
        IF c = "Program" THEN "reader"
        ELSE IF c = "ServerManager" THEN "log"
        ELSE IF c = "PlayerList" THEN "sweeper"
        ELSE "executor"]

\* the thread was never started, or has left its function
Terminated(t) == thr[t] \in {"none", "done"}

\* C28: every worker thread a component spawned (the reader of the child's
\* output, the log pump, the ban sweeper, the vote executor) has terminated
\* before the object that owns it is destroyed; no step of the reader thread
\* touches the pipes or the buffers of a Program whose destructor has run.
C28_WorkersEndBeforeOwner ==
    \A c \in destroyed : Terminated(WorkerOf[c])


\* the steps of main() once it shuts down: stop() and the destructors
MainShutdown == MainThread /\ thr["main"] \notin {"init", "run"}

\* the positions of main() after the join of each worker has returned
AfterExecutorJoin ==
    {"sm_stop", "sm_join", "pl_stop", "pl_join", "pl_clear", "prog_dtor",
     "return", "end"}

AfterPumpJoin == {"exit", "pl_stop", "pl_join", "pl_clear", "prog_dtor",
                  "return", "end"}

AfterSweeperJoin == {"pl_clear", "prog_dtor", "return", "end"}

\* the positions of a checker thread inside a turn of its loop
InTurn(t) == thr[t] \notin {"head", "pred", "waiting", "test", "done", "none"}

InSaveFiles(t) ==
    \/ t = "sweeper" /\ thr[t] = "pardon_send"
    \/ t = "log" /\ thr[t] = "ban_send"

InSaveData(t) == t = "executor" /\ thr[t] = "save"

\* C32: every read and write of a shared collection happens while the thread
\* holds the mutex of that collection: no thread iterates or modifies the ban
\* map or the known-player set, persisting them from ban(), pardon() or the
\* sweeper included, and none iterates or modifies the request map,
\* persisting it from the executor included, without the owning data mutex.
C32_AccessUnderMutex ==
    \A t \in Threads :
        /\ InSaveFiles(t) => mtx[PL_MUTEX] = t
        /\ InSaveData(t) => mtx[CR_MUTEX] = t


\* the rule keys that occur in the folded text
KeysIn(text) ==
    {i \in 1 .. Len(forbidden_commands_) :
        Contains(to_lower(remove_spaces(text)),
                 to_lower(remove_spaces(forbidden_commands_[i].command)))}

\* process_log_line ran and called ban()
BanIssuedStep == last_op'.op = "classify" /\ n_bans' > n_bans

\* C33: log processing issues a ban only when the whitespace-stripped,
\* case-folded content of the Command event (the command text) contains a
\* rule key and the player name of the event is not empty: no ban for an
\* empty name, and none for a line whose command text holds no key, even if
\* the player's name or the rest of the line holds one.
C33_BanOnlyForCommandText ==
    [][BanIssuedStep =>
          /\ last_op'.event.type = "PLAYER_COMMAND"
          /\ KeysIn(last_op'.event.content) # {}
          /\ last_op'.event.player_name # <<>>]_vars

\* the mutex thread t is about to lock: the one the lock_guard, unique_lock,
\* wait_for or mutex_.lock() at its position takes
Wants(t) ==
    LET pc == thr[t]
    IN  CASE t = "sweeper" /\ pc \in {"head", "waiting"} -> PL_CHECKER_MUTEX
          [] t = "sweeper" /\ pc \in {"sweep", "pardon"} -> PL_MUTEX
          [] t = "log" /\ pc \in {"join_leave", "bracket", "issued",
                                  "ban_call", "relock"} -> PL_MUTEX
          [] t = "executor" /\ pc \in {"head", "waiting"} -> CR_CHECKER_MUTEX
          [] t = "executor" /\ pc \in {"sweep", "cleanup"} -> CR_MUTEX
          [] t = "main" /\ pc = "cr_stop" -> CR_CHECKER_MUTEX
          [] t = "main" /\ pc = "pl_stop" -> PL_CHECKER_MUTEX
          [] t = "main" /\ pc = "pl_clear" -> PL_MUTEX
          [] OTHER -> "none"

\* t is blocked: the mutex it is about to lock is held, by Holder(t)
Holder(t) == IF Wants(t) = "none" THEN "free" ELSE mtx[Wants(t)]

\* some threads wait for each other in a cycle; a cycle of one is a thread
\* that locks a mutex it holds
CyclicWait ==
    \E S \in SUBSET Threads : S # {} /\ \A t \in S : Holder(t) \in S

\* C37: no thread is ever blocked on a mutex it holds itself, be it a data
\* mutex or checker mutex of the registry or the engine or the mutex of a
\* line buffer, and no threads wait for each other's mutexes in a cycle.
C37_NoDeadlock ==
    /\ buf_lock # "deadlocked"
    /\ ~CyclicWait

(***************************************************************************)
(* Specifications                                                          *)
(***************************************************************************)
InitBuffer == BufferInit /\ EnvInit /\ ReqIdle /\ BanIdle /\ ProgInit /\ SupIdle /\ ExtBooted

SpecBuffer == InitBuffer /\ [][BufferNext]_vars

SpecBufferAll == InitBuffer /\ [][BufferAllNext]_vars

InitRequests ==
    BufferIdle /\ EnvInit /\ ReqInit /\ BanIdle /\ ProgInit /\ SupIdle /\ ExtBooted

SpecRequests == InitRequests /\ [][RequestsNext]_vars

InitBan == BufferIdle /\ EnvInit /\ ReqIdle /\ BanInit /\ ProgInit /\ SupIdle /\ ExtBooted

SpecBan == InitBan /\ [][BanNext]_vars

InitProgram ==
    BufferIdle /\ EnvInit /\ ReqIdle /\ BanIdle /\ ProgInit /\ SupIdle /\ ExtBooted

SpecProgram == InitProgram /\ [][ProgramNext]_vars

InitSupervisor ==
    BufferIdle /\ EnvInit /\ ReqIdle /\ BanIdle /\ ProgInit /\ SupInit /\ ExtBooted

SpecSupervisor == InitSupervisor /\ [][SupervisorNext]_vars

\* the reader thread, the log thread and main() keep running, and a stop()
\* that has begun goes on; nothing makes the child end or a signal arrive
FairSupervisor ==
    /\ SpecSupervisor
    /\ WF_vars(ReaderReap)
    /\ WF_vars(PumpLine)
    /\ WF_vars(PumpSleep)
    /\ WF_vars(PumpExit)
    /\ WF_vars(SupStopEnd)
    /\ WF_vars(MainLeave)

InitClassify ==
    BufferIdle /\ EnvInit /\ ReqIdle /\ BanIdle /\ ProgInit /\ SupIdle /\ ExtBooted

SpecClassify == InitClassify /\ [][ClassifyNext]_vars

InitSelfPardon ==
    BufferIdle /\ EnvInit /\ ReqIdle /\ BanIdle /\ ProgInit /\ SupIdle /\ ExtBooted

SpecSelfPardon == InitSelfPardon /\ [][SelfPardonNext]_vars

InitWeb == BufferIdle /\ EnvInit /\ ReqInit /\ BanIdle /\ ProgInit /\ SupIdle /\ ExtBooted

SpecWeb == InitWeb /\ [][WebNext]_vars

InitStartup == BufferIdle /\ EnvInit /\ ProgInit /\ SupIdle /\ StartupInit

SpecStartup == InitStartup /\ [][StartupNext]_vars


InitThreads ==
    BufferIdle /\ EnvInit /\ ReqIdle /\ BanIdle /\ ProgInit /\ SupIdle /\ ExtBooted

SpecThreads == InitThreads /\ [][ThreadsNext]_vars


\* Every thread that can take a step is scheduled.  A step that takes a mutex
\* can be taken only while the mutex is free; the fairness is strong because
\* each holder releases the mutex after a bounded piece of work and the
\* checker threads release theirs for the 10 s and 30 s of their waits.
FairThreads ==
    /\ SpecThreads
    /\ SF_vars(BanCheckerThread)
    /\ SF_vars(CheckerThread)
    /\ SF_vars(LogReaderThread)
    /\ SF_vars(MainShutdown)


InitRules ==
    BufferIdle /\ EnvInit /\ ReqIdle /\ BanInit /\ ProgInit /\ SupIdle /\ ExtBooted

SpecRules == InitRules /\ [][RulesNext]_vars

InitSenders ==
    BufferIdle /\ EnvInit /\ ReqIdle /\ BanIdle /\ ProgInit /\ SupIdle /\ ExtBooted

SpecSenders == InitSenders /\ [][SendersNext]_vars

====
